---- MODULE Spec2Model ----
(***************************************************************************)
(* Command core of the reservation service: the event store over an object *)
(* store (apps/api/src/infra/event-store.ts), the command runner           *)
(* (application/resource-workflow.ts, the variant with configurable        *)
(* retries), the resource decider (domain/resource-decider.ts) and the     *)
(* idempotency gate (application/pipeline.ts, infra/idempotency.ts).       *)
(*                                                                         *)
(* One resource stream is modelled.  Requests run in NumProcs concurrent   *)
(* request slots; every await of the code is one step of a slot.           *)
(***************************************************************************)
EXTENDS Integers, Sequences, FiniteSets, Bags, TLC

\* ------------------------------------------------------------------------
\* Bounds
\* ------------------------------------------------------------------------
NumProcs == 2          \* requests in flight at the same time
MaxRequests == 2       \* requests received over a behaviour
MaxRequestsContended == 3 \* requests received over a behaviour with three writers of one stream
BatchSize == 2         \* MaxNumberOfMessages of the worker's ReceiveMessage (10 in the code)
MaxFailures == 2       \* calls of the worker that fail over a behaviour
MaxFailuresLive == 1   \* the same, where progress is checked
MaxTime == 3           \* the latest instant of a command, in time units
MaxReservationId == 2  \* the largest reservation id a cancel command names
MaxEvents == 5         \* events of the resource stream after which no command is decided
MaxUserEvents == 2     \* events of the user stream after which no command is decided
MaxStreamLength == 5   \* events of the stream whose listings are validated
MaxRetries == 1        \* largest versionConflictMaxRetries configured
SnapshotEvery == 2     \* snapshotByStreamType.resource of the modelled deployment
NowUtc == 1            \* the wall clock read by nowUtc(), in time units

\* ------------------------------------------------------------------------
\* Program constants
\* ------------------------------------------------------------------------
KeyPadWidth == 12      \* padStart(12, "0") of the object keys

Procs == 1 .. NumProcs
ResourceId == "r1"
Admin == [sub |-> "admin1", role |-> "admin"]
User1 == [sub |-> "user1", role |-> "user"]
KeyNames == <<"k1", "k2">>
IdempotencyKeys == {KeyNames[i] : i \in 1 .. Len(KeyNames)}

null == [null |-> TRUE]

\* ------------------------------------------------------------------------
\* Object keys (event-store.ts)
\* ------------------------------------------------------------------------
RECURSIVE digitsOf(_)
\* String(version): the decimal digits of a non-negative integer
digitsOf(n) == IF n < 10 THEN <<n>> ELSE Append(digitsOf(n \div 10), n % 10)

\* String.prototype.padStart(width, "0") on a digit string
padStart(s, width) ==
  IF Len(s) >= width THEN s ELSE [i \in 1 .. (width - Len(s)) |-> 0] \o s

RECURSIVE numberFrom(_, _, _)
numberFrom(ds, i, acc) ==
  IF i > Len(ds) THEN acc ELSE numberFrom(ds, i + 1, acc * 10 + ds[i])

\* Number(digits)
numberOf(ds) == numberFrom(ds, 1, 0)

\* `${streamType}/${streamId}/${pad12(version)}.json`, as its path segments
keyOf(streamType, streamId, version) ==
  <<streamType, streamId, padStart(digitsOf(version), KeyPadWidth)>>

\* `snapshots/${streamType}/${streamId}/${pad12(snapshotVersion)}.json`
snapshotKeyOf(streamType, streamId, snapshotVersion) ==
  <<"snapshots", streamType, streamId, padStart(digitsOf(snapshotVersion), KeyPadWidth)>>

\* Number(last path segment without ".json")
parseVersion(key) == numberOf(key[Len(key)])

\* ------------------------------------------------------------------------
\* Domain errors and HTTP responses (domain/types.ts, application/pipeline.ts)
\* ------------------------------------------------------------------------
domainError(code, meta) == [error |-> [code |-> code, meta |-> meta]]

response(statusCode, body) == [statusCode |-> statusCode, body |-> body]

statusOf(error) ==
  LET code == error.error.code IN
  IF code \in {"FORBIDDEN", "UNAUTHORIZED_CANCEL", "BOOTSTRAP_FORBIDDEN"} THEN 403
  ELSE IF code \in {"RESOURCE_NOT_FOUND", "RESERVATION_NOT_FOUND", "USER_NOT_FOUND"} THEN 404
  ELSE IF code \in {"RESOURCE_NAME_TAKEN", "RESOURCE_ALREADY_EXISTS", "USER_ALREADY_EXISTS",
                    "RESERVATION_OVERLAP", "VERSION_CONFLICT", "IDEMPOTENCY_HASH_MISMATCH"} THEN 409
  ELSE IF code = "INVALID_CREDENTIALS" THEN 401
  ELSE 400

\* the rejection is thrown instead of mapped, and safe answers 500
domainErrorResponseAsInternal(error) ==
  response(500, [error |-> [code |-> "INTERNAL_ERROR", meta |-> [message |-> error.error.code]]])

domainErrorResponse(error) == response(statusOf(error), error)

\* error.message of the errors the store rejects with
messageOf(errorType) ==
  IF errorType = "STREAM_GAP_DETECTED" THEN "Detected non-sequential event versions in stream"
  ELSE IF errorType = "VERSION_CONFLICT" THEN "Version conflict while appending event"
  ELSE errorType

\* the catch of safe: any rejection becomes a 500 INTERNAL_ERROR
internalError(message) ==
  response(500, [error |-> [code |-> "INTERNAL_ERROR", meta |-> [message |-> message]]])

\* ------------------------------------------------------------------------
\* Resource decider (domain/resource-decider.ts)
\* ------------------------------------------------------------------------
\* an interval of no length passes
isIntervalValidOrEmpty(fromUtc, toUtc) == fromUtc <= toUtc

isIntervalValid(fromUtc, toUtc) == fromUtc < toUtc

\* the status of the existing reservation is not looked at
overlapsIgnoringStatus(interval, existing) ==
  /\ interval.fromUtc < existing.toUtc
  /\ existing.fromUtc < interval.toUtc

overlaps(interval, existing) ==
  /\ existing.status = "active"
  /\ interval.fromUtc < existing.toUtc
  /\ existing.fromUtc < interval.toUtc

\* the role of the actor is not looked at
canCancelOwnerOnly(reservation, actor) == reservation.userId = actor.actorUserId

canCancel(reservation, actor) ==
  actor.actorRole = "admin" \/ reservation.userId = actor.actorUserId

foldResource(state, event) ==
  IF event.type = "ResourceCreated" THEN
    [resourceId |-> event.payload.resourceId,
     name |-> event.payload.name,
     details |-> event.payload.details,
     status |-> "active",
     reservations |-> <<>>]
  ELSE IF state = null THEN state
  ELSE IF event.type = "ResourceMetadataUpdated" THEN
    [state EXCEPT !.details = event.payload.details]
  ELSE IF event.type = "ReservationAddedToResource" THEN
    [state EXCEPT !.reservations =
       Append(@, [reservationId |-> event.payload.reservationId,
                  userId |-> event.payload.userId,
                  fromUtc |-> event.payload.fromUtc,
                  toUtc |-> event.payload.toUtc,
                  status |-> "active",
                  createdAtUtc |-> event.payload.createdAtUtc,
                  cancelledAtUtc |-> <<>>])]
  ELSE IF event.type = "ResourceReservationCancelled" THEN
    [state EXCEPT !.reservations =
       [i \in 1 .. Len(@) |->
          IF @[i].reservationId = event.payload.reservationId
          THEN [@[i] EXCEPT !.status = "cancelled",
                            !.cancelledAtUtc = <<event.payload.cancelledAtUtc>>]
          ELSE @[i]]]
  ELSE state

rejected(error) == [kind |-> "rejected", error |-> error]
accepted(event) == [kind |-> "accepted", event |-> event]

\* Array.prototype.find: the first reservation with the id, or null
findReservation(reservations, reservationId) ==
  LET idx == {i \in 1 .. Len(reservations) : reservations[i].reservationId = reservationId}
  IN IF idx = {} THEN null
     ELSE reservations[CHOOSE i \in idx : \A j \in idx : i <= j]

decideResource(state, command) ==
  IF command.type = "CreateResource" THEN
    IF command.actorRole # "admin" THEN rejected(domainError("FORBIDDEN", <<>>))
    ELSE IF state # null THEN
      rejected(domainError("RESOURCE_ALREADY_EXISTS", [resourceId |-> state.resourceId]))
    ELSE accepted([type |-> "ResourceCreated",
                   payload |-> [resourceId |-> command.resourceId,
                                name |-> command.name,
                                details |-> command.details]])
  ELSE IF command.type = "UpdateResourceMetadata" THEN
    IF command.actorRole # "admin" THEN rejected(domainError("FORBIDDEN", <<>>))
    ELSE IF state = null THEN
      rejected(domainError("RESOURCE_NOT_FOUND", [resourceId |-> command.resourceId]))
    ELSE accepted([type |-> "ResourceMetadataUpdated",
                   payload |-> [resourceId |-> command.resourceId,
                                details |-> command.details]])
  ELSE IF command.type = "CreateReservationInResource" THEN
    IF state = null THEN
      rejected(domainError("RESOURCE_NOT_FOUND", [resourceId |-> command.resourceId]))
    ELSE IF ~isIntervalValid(command.fromUtc, command.toUtc) THEN
      rejected(domainError("INVALID_INTERVAL",
                           [fromUtc |-> command.fromUtc, toUtc |-> command.toUtc]))
    ELSE IF command.fromUtc < command.nowUtc THEN
      rejected(domainError("RESERVATION_IN_PAST",
                           [nowUtc |-> command.nowUtc, fromUtc |-> command.fromUtc]))
    ELSE IF \E i \in 1 .. Len(state.reservations) :
              overlaps([fromUtc |-> command.fromUtc, toUtc |-> command.toUtc],
                       state.reservations[i]) THEN
      rejected(domainError("RESERVATION_OVERLAP", [resourceId |-> command.resourceId]))
    ELSE accepted([type |-> "ReservationAddedToResource",
                   payload |-> [resourceId |-> command.resourceId,
                                reservationId |-> command.reservationId,
                                userId |-> command.reservationUserId,
                                fromUtc |-> command.fromUtc,
                                toUtc |-> command.toUtc,
                                createdAtUtc |-> command.nowUtc]])
  ELSE IF command.type = "CancelReservationInResource" THEN
    IF state = null THEN
      rejected(domainError("RESOURCE_NOT_FOUND", [resourceId |-> command.resourceId]))
    ELSE
      LET reservation == findReservation(state.reservations, command.reservationId) IN
      IF reservation = null THEN
        rejected(domainError("RESERVATION_NOT_FOUND", [reservationId |-> command.reservationId]))
      ELSE IF reservation.status = "cancelled" THEN
        rejected(domainError("RESERVATION_ALREADY_CANCELLED",
                             [reservationId |-> command.reservationId]))
      ELSE IF canCancel(reservation, [actorUserId |-> command.actorUserId,
                                      actorRole |-> command.actorRole]) THEN
        accepted([type |-> "ResourceReservationCancelled",
                  payload |-> [resourceId |-> command.resourceId,
                               reservationId |-> command.reservationId,
                               cancelledAtUtc |-> command.nowUtc]])
      ELSE rejected(domainError("UNAUTHORIZED_CANCEL",
                                [reservationId |-> command.reservationId]))
  ELSE rejected(domainError("INVALID_COMMAND", <<>>))

\* ------------------------------------------------------------------------
\* User decider (domain/user-decider.ts)
\* ------------------------------------------------------------------------
foldUser(state, event) ==
  IF event.type = "AdminBootstrapped" THEN
    [userId |-> event.payload.userId, email |-> event.payload.email,
     passwordHash |-> event.payload.passwordHash, role |-> "admin"]
  ELSE IF event.type = "UserRegistered" THEN
    [userId |-> event.payload.userId, email |-> event.payload.email,
     passwordHash |-> event.payload.passwordHash, role |-> event.payload.role]
  ELSE state

\* LoginUser is accepted for any email once the user exists
decideUserAnyEmail(state, command) ==
  IF command.type = "BootstrapAdmin" THEN
    IF state # null
    THEN rejected(domainError("USER_ALREADY_EXISTS", [userId |-> state.userId]))
    ELSE accepted([type |-> "AdminBootstrapped",
                   payload |-> [userId |-> command.userId, email |-> command.email,
                                passwordHash |-> command.passwordHash]])
  ELSE IF command.type = "RegisterUser" THEN
    IF state # null
    THEN rejected(domainError("USER_ALREADY_EXISTS", [userId |-> state.userId]))
    ELSE accepted([type |-> "UserRegistered",
                   payload |-> [userId |-> command.userId, email |-> command.email,
                                passwordHash |-> command.passwordHash, role |-> "user"]])
  ELSE
    IF state # null
    THEN accepted([type |-> "UserLoggedIn",
                   payload |-> [userId |-> command.userId, email |-> command.email]])
    ELSE rejected(domainError("INVALID_CREDENTIALS", <<>>))

decideUser(state, command) ==
  IF command.type = "BootstrapAdmin" THEN
    IF state # null
    THEN rejected(domainError("USER_ALREADY_EXISTS", [userId |-> state.userId]))
    ELSE accepted([type |-> "AdminBootstrapped",
                   payload |-> [userId |-> command.userId, email |-> command.email,
                                passwordHash |-> command.passwordHash]])
  ELSE IF command.type = "RegisterUser" THEN
    IF state # null
    THEN rejected(domainError("USER_ALREADY_EXISTS", [userId |-> state.userId]))
    ELSE accepted([type |-> "UserRegistered",
                   payload |-> [userId |-> command.userId, email |-> command.email,
                                passwordHash |-> command.passwordHash, role |-> "user"]])
  ELSE
    IF state # null /\ state.email = command.email
    THEN accepted([type |-> "UserLoggedIn",
                   payload |-> [userId |-> command.userId, email |-> command.email]])
    ELSE rejected(domainError("INVALID_CREDENTIALS", <<>>))

\* ------------------------------------------------------------------------
\* Event store over the object store (infra/event-store.ts).
\* A bucket is a function from the keys of the stored objects to their bodies.
\* ------------------------------------------------------------------------
ok == "ok"
VERSION_CONFLICT == "VERSION_CONFLICT"
STREAM_GAP_DETECTED == "STREAM_GAP_DETECTED"

\* ListObjectsV2 with Prefix, all pages
listKeysByPrefix(b, prefix) ==
  {k \in DOMAIN b : Len(k) > Len(prefix) /\ SubSeq(k, 1, Len(prefix)) = prefix}

RECURSIVE sortAscending(_)
\* .sort((a, b) => a.version - b.version) over the listed keys
sortAscending(keys) ==
  IF keys = {} THEN <<>>
  ELSE LET least == CHOOSE k \in keys : \A j \in keys : parseVersion(k) <= parseVersion(j)
       IN <<least>> \o sortAscending(keys \ {least})

\* the filter written as version > fromVersionInclusive
loadStreamFromVersionExclusive(b, streamType, streamId, fromVersionInclusive) ==
  LET keys == sortAscending({k \in listKeysByPrefix(b, <<streamType, streamId>>) :
                               parseVersion(k) > fromVersionInclusive})
  IN [i \in 1 .. Len(keys) |-> b[keys[i]]]

loadStreamFromVersion(b, streamType, streamId, fromVersionInclusive) ==
  LET keys == sortAscending({k \in listKeysByPrefix(b, <<streamType, streamId>>) :
                               parseVersion(k) >= fromVersionInclusive})
  IN [i \in 1 .. Len(keys) |-> b[keys[i]]]

RECURSIVE reduceVersions(_, _, _)
reduceVersions(state, versions, i) ==
  IF i > Len(versions) THEN state
  ELSE reduceVersions(
         IF state.ok /\ versions[i] = state.expected
         THEN [ok |-> TRUE, expected |-> state.expected + 1, actual |-> <<versions[i]>>]
         ELSE [ok |-> FALSE, expected |-> state.expected, actual |-> <<versions[i]>>],
         versions, i + 1)

validateSequentialVersions(versions, expectedFromVersion) ==
  reduceVersions([ok |-> TRUE, expected |-> expectedFromVersion, actual |-> <<>>], versions, 1)

\* loadAndValidate of loadStreamWithGapRetry, on the bucket as listed
loadAndValidate(b, streamType, streamId, fromVersionInclusive) ==
  LET events == loadStreamFromVersion(b, streamType, streamId, fromVersionInclusive)
      validation == validateSequentialVersions([i \in 1 .. Len(events) |-> events[i].version],
                                               fromVersionInclusive)
      versions == [i \in 1 .. Len(events) |-> events[i].version]
  IN IF validation.ok
     THEN [result |-> ok, events |-> events, versions |-> versions]
     ELSE [result |-> STREAM_GAP_DETECTED, events |-> <<>>, versions |-> versions,
           expectedVersion |-> validation.expected, actualVersion |-> validation.actual]

\* the rejection of the first load is not caught: no second load
loadStreamWithoutGapRetry(first, second, streamType, streamId, fromVersionInclusive) ==
  LET firstLoad == loadAndValidate(first, streamType, streamId, fromVersionInclusive)
  IN [result |-> firstLoad.result, events |-> firstLoad.events, loads |-> <<firstLoad.versions>>]

\* first is the bucket as listed by the first load, second as listed by the
\* retry; loads are the versions each load that ran got from the listing
loadStreamWithGapRetry(first, second, streamType, streamId, fromVersionInclusive) ==
  LET firstLoad == loadAndValidate(first, streamType, streamId, fromVersionInclusive)
      secondLoad == loadAndValidate(second, streamType, streamId, fromVersionInclusive)
  IN IF firstLoad.result = ok
     THEN [result |-> ok, events |-> firstLoad.events, loads |-> <<firstLoad.versions>>]
     ELSE [result |-> secondLoad.result, events |-> secondLoad.events,
           loads |-> <<firstLoad.versions, secondLoad.versions>>]

\* What ListObjectsV2 can answer for a stream: every stored key, or, where
\* listings are incomplete, the stored keys without some of the stream's events
listedViews(b, streamType, streamId, incomplete) ==
  LET stored == listKeysByPrefix(b, <<streamType, streamId>>)
  IN {[k \in DOMAIN b \ omitted |-> b[k]] :
        omitted \in IF incomplete THEN SUBSET stored ELSE {{}}}

loadStream(b, streamType, streamId) == loadStreamWithGapRetry(b, b, streamType, streamId, 1)

\* PutObject without the IfNoneMatch precondition: a stored snapshot is replaced
putSnapshotOverwriting(b, snapshot) ==
  LET key == snapshotKeyOf(snapshot.streamType, snapshot.streamId, snapshot.snapshotVersion)
  IN [k \in DOMAIN b \cup {key} |-> IF k = key THEN snapshot ELSE b[k]]

\* PutObject with IfNoneMatch "*"; PreconditionFailed resolves with the snapshot
putSnapshot(b, snapshot) ==
  LET key == snapshotKeyOf(snapshot.streamType, snapshot.streamId, snapshot.snapshotVersion)
  IN IF key \in DOMAIN b THEN b ELSE b @@ (key :> snapshot)

getLatestSnapshot(b, streamType, streamId) ==
  LET keys == listKeysByPrefix(b, <<"snapshots", streamType, streamId>>)
  IN IF keys = {} THEN null
     ELSE b[CHOOSE k \in keys : \A j \in keys : parseVersion(k) >= parseVersion(j)]

\* PutObject without the IfNoneMatch precondition: the object is overwritten
appendEventOverwriting(b, recordedEvent, expectedVersion) ==
  LET key == keyOf(recordedEvent.streamType, recordedEvent.streamId, recordedEvent.version)
  IN IF expectedVersion + 1 = recordedEvent.version
     THEN [result |-> ok,
           bucket |-> [k \in DOMAIN b \cup {key} |-> IF k = key THEN recordedEvent ELSE b[k]]]
     ELSE [result |-> VERSION_CONFLICT, bucket |-> b]

\* PutObject with IfNoneMatch "*"; PreconditionFailed becomes VersionConflictError
appendEvent(b, recordedEvent, expectedVersion) ==
  LET key == keyOf(recordedEvent.streamType, recordedEvent.streamId, recordedEvent.version)
  IN IF expectedVersion + 1 = recordedEvent.version
     THEN IF key \in DOMAIN b
          THEN [result |-> VERSION_CONFLICT, bucket |-> b]
          ELSE [result |-> ok, bucket |-> b @@ (key :> recordedEvent)]
     ELSE [result |-> VERSION_CONFLICT, bucket |-> b]

\* every error of PutObject is taken for a lost precondition
appendEventOutcomeAllConflicts(b, recordedEvent, expectedVersion, s3error) ==
  IF expectedVersion + 1 = recordedEvent.version /\ s3error = "none"
  THEN appendEvent(b, recordedEvent, expectedVersion)
  ELSE [result |-> VERSION_CONFLICT, bucket |-> b]

\* appendEvent when the PutObject call itself can fail: s3error is the name of
\* the error S3 answers with before it writes anything, or "none". The catch
\* turns PreconditionFailed and ConditionalRequestConflict into
\* VersionConflictError and rejects with any other error as it is
appendEventOutcome(b, recordedEvent, expectedVersion, s3error) ==
  IF expectedVersion + 1 # recordedEvent.version \/ s3error = "none"
  THEN appendEvent(b, recordedEvent, expectedVersion)
  ELSE IF s3error \in {"PreconditionFailed", "ConditionalRequestConflict"}
  THEN [result |-> VERSION_CONFLICT, bucket |-> b]
  ELSE [result |-> s3error, bucket |-> b]

\* what S3 answers to the PutObject of an append, and whether a call that
\* reads the bucket fails, in a deployment whose store calls can fail
putObjectErrors(faultSet) ==
  IF "store" \in faultSet
  THEN {"none", "ConditionalRequestConflict", "ServiceUnavailable"} ELSE {"none"}
readFailures(faultSet) == IF "store" \in faultSet THEN BOOLEAN ELSE {FALSE}

\* ------------------------------------------------------------------------
\* Idempotency store (infra/idempotency.ts)
\* ------------------------------------------------------------------------
\* sha256(JSON.stringify(content)): a digest that differs for different content
hashContent(content) == <<"sha256", content>>

\* the stored record is not consulted for a replay: an equal hash runs the command again
idempotencyDecisionNeverReplay(existing, idempotencyKey, content) ==
  LET contentHash == hashContent(content) IN
  IF existing = null \/ existing.contentHash = contentHash
  THEN [kind |-> "new", contentHash |-> contentHash]
  ELSE [kind |-> "mismatch",
        error |-> domainError("IDEMPOTENCY_HASH_MISMATCH", [idempotencyKey |-> idempotencyKey])]

\* the hashes are not compared: any stored record is replayed
idempotencyDecisionIgnoringHash(existing, idempotencyKey, content) ==
  LET contentHash == hashContent(content) IN
  IF existing = null THEN [kind |-> "new", contentHash |-> contentHash]
  ELSE [kind |-> "replay", record |-> existing]

idempotencyDecision(existing, idempotencyKey, content) ==
  LET contentHash == hashContent(content) IN
  IF existing = null THEN [kind |-> "new", contentHash |-> contentHash]
  ELSE IF existing.contentHash = contentHash THEN [kind |-> "replay", record |-> existing]
  ELSE [kind |-> "mismatch",
        error |-> domainError("IDEMPOTENCY_HASH_MISMATCH", [idempotencyKey |-> idempotencyKey])]

\* PutCommand without the ConditionExpression: the last writer wins
saveIdempotencyOverwriting(table, record) ==
  [result |-> ok, table |-> [table EXCEPT ![record.idempotencyKey] = record]]

\* a save that keeps the responses with a success status only
saveIdempotencySuccessOnly(table, record) ==
  IF record.statusCode >= 400 THEN [result |-> ok, table |-> table]
  ELSE IF table[record.idempotencyKey] = null
  THEN [result |-> ok, table |-> [table EXCEPT ![record.idempotencyKey] = record]]
  ELSE [result |-> "IDEMPOTENCY_ALREADY_EXISTS", table |-> table]

\* PutCommand with attribute_not_exists(idempotencyKey)
saveIdempotency(table, record) ==
  IF table[record.idempotencyKey] = null
  THEN [result |-> ok, table |-> [table EXCEPT ![record.idempotencyKey] = record]]
  ELSE [result |-> "IDEMPOTENCY_ALREADY_EXISTS", table |-> table]

\* ------------------------------------------------------------------------
\* Command runner (application/resource-workflow.ts)
\* ------------------------------------------------------------------------
recordEvent(eventId, streamId, streamType, version, type, payload, meta) ==
  [eventId |-> eventId, streamId |-> streamId, streamType |-> streamType,
   version |-> version, type |-> type, payload |-> payload,
   occurredAtUtc |-> NowUtc, meta |-> meta]

snapshotThresholdOf(cfg, streamType) ==
  IF streamType \in DOMAIN cfg.snapshotByStreamType
  THEN cfg.snapshotByStreamType[streamType]
  ELSE cfg.snapshotEveryDefault

\* the threshold is read as on/off: every version is snapshotted when it is positive
shouldSnapshotEveryVersion(cfg, streamType, nextVersion) ==
  snapshotThresholdOf(cfg, streamType) > 0

shouldSnapshot(cfg, streamType, nextVersion) ==
  LET threshold == snapshotThresholdOf(cfg, streamType)
  IN threshold > 0 /\ nextVersion % threshold = 0

RECURSIVE foldTail(_, _, _)
\* tail.reduce((acc, recordedEvent) => fold(acc, {type, payload}), initial)
foldTail(acc, tail, i) ==
  IF i > Len(tail) THEN acc
  ELSE foldTail(foldResource(acc, [type |-> tail[i].type, payload |-> tail[i].payload]),
                tail, i + 1)

\* lastEventVersion taken as fromVersion + tail.length: one past the last event
stateFromSnapshotAndTailOffByOne(snapshot, tail) ==
  [state |-> foldTail(IF snapshot # null THEN snapshot.state ELSE null, tail, 1),
   lastEventVersion |->
     IF Len(tail) > 0
     THEN (IF snapshot # null THEN snapshot.lastEventVersion + 1 ELSE 1) + Len(tail)
     ELSE IF snapshot # null THEN snapshot.lastEventVersion
     ELSE 0]

\* the fold starts from the empty state although the tail starts after the snapshot
stateFromSnapshotAndTailIgnoringSnapshot(snapshot, tail) ==
  [state |-> foldTail(null, tail, 1),
   lastEventVersion |->
     IF Len(tail) > 0 THEN tail[Len(tail)].version
     ELSE IF snapshot # null THEN snapshot.lastEventVersion
     ELSE 0]

\* the synchronous tail of loadStateFromSnapshotAndTail, once snapshot and tail are loaded
stateFromSnapshotAndTail(snapshot, tail) ==
  [state |-> foldTail(IF snapshot # null THEN snapshot.state ELSE null, tail, 1),
   lastEventVersion |->
     IF Len(tail) > 0 THEN tail[Len(tail)].version
     ELSE IF snapshot # null THEN snapshot.lastEventVersion
     ELSE 0]

buildResourceState(events) == foldTail(null, events, 1)

\* withVersionConflictRetries is never given a retry
retriesIgnored(cfg) == 0

retriesOf(cfg) ==
  IF cfg.versionConflictMaxRetries >= 0 THEN cfg.versionConflictMaxRetries ELSE 1

\* the bucket after maybeWriteSnapshot: putSnapshot when the threshold is hit
maybeWriteSnapshot(b, cfg, streamType, streamId, lastEventVersion, state) ==
  IF shouldSnapshot(cfg, streamType, lastEventVersion)
  THEN putSnapshot(b, [streamType |-> streamType, streamId |-> streamId,
                       snapshotVersion |-> lastEventVersion,
                       lastEventVersion |-> lastEventVersion,
                       state |-> state, createdAtUtc |-> NowUtc])
  ELSE b

\* ------------------------------------------------------------------------
\* Command builders (application/command-builders.ts)
\* ------------------------------------------------------------------------
buildCreateResourceCommand(nameTaken, resourceId, name, details, actorUserId, actorRole) ==
  IF nameTaken
  THEN [kind |-> "error", error |-> domainError("RESOURCE_NAME_TAKEN", [name |-> name])]
  ELSE [kind |-> ok,
        value |-> [type |-> "CreateResource", resourceId |-> resourceId, name |-> name,
                   details |-> details, actorUserId |-> actorUserId, actorRole |-> actorRole]]

buildUpdateResourceMetadataCommand(resourceId, details, actorUserId, actorRole) ==
  [type |-> "UpdateResourceMetadata", resourceId |-> resourceId, details |-> details,
   actorUserId |-> actorUserId, actorRole |-> actorRole]

buildCreateReservationCommand(resourceId, reservationId, fromUtc, toUtc, reservationUserId, reservationUserExists, actorUserId, actorRole, nowUtc) ==
  IF ~reservationUserExists
  THEN [kind |-> "error",
        error |-> domainError("USER_NOT_FOUND", [reservationUserId |-> reservationUserId])]
  ELSE [kind |-> ok,
        value |-> [type |-> "CreateReservationInResource", resourceId |-> resourceId,
                   reservationId |-> reservationId, fromUtc |-> fromUtc, toUtc |-> toUtc,
                   reservationUserId |-> reservationUserId, actorUserId |-> actorUserId,
                   actorRole |-> actorRole, nowUtc |-> nowUtc]]

buildCancelReservationCommand(resourceId, reservationId, actorUserId, actorRole, nowUtc) ==
  [type |-> "CancelReservationInResource", resourceId |-> resourceId,
   reservationId |-> reservationId, actorUserId |-> actorUserId, actorRole |-> actorRole,
   nowUtc |-> nowUtc]

\* ------------------------------------------------------------------------
\* Requests the clients send to POST /commands/resource
\* ------------------------------------------------------------------------
\* the interval the clients ask for: it starts where the seeded reservation ends
Intervals == {<<NowUtc + 2, NowUtc + 4>>}

\* the authenticated subject and the validated command envelope of a request
CreateResourceRequest ==
  [auth |-> Admin,
   input |-> [type |-> "CreateResource", payload |-> [name |-> "SalaA", details |-> "Piso 1"]]]

UpdateResourceMetadataRequest ==
  [auth |-> Admin,
   input |-> [type |-> "UpdateResourceMetadata",
              payload |-> [resourceId |-> ResourceId, details |-> "Piso 2"]]]

CreateReservationRequest(iv) ==
  [auth |-> User1,
   input |-> [type |-> "CreateReservationInResource",
              payload |-> [resourceId |-> ResourceId, fromUtc |-> iv[1], toUtc |-> iv[2]]]]

CancelReservationRequest(reservationId) ==
  [auth |-> User1,
   input |-> [type |-> "CancelReservationInResource",
              payload |-> [resourceId |-> ResourceId, reservationId |-> reservationId]]]

\* Resource and reservation ids are random UUIDs: a request can name one only
\* after the event that introduced it is stored.
knownReservationIds(b) ==
  {b[k].payload.reservationId :
     k \in {j \in DOMAIN b : Len(j) = 3 /\ b[j].type = "ReservationAddedToResource"}}

ResourceRequests(b) ==
  {CreateResourceRequest}
  \cup (IF keyOf("resource", ResourceId, 1) \in DOMAIN b
        THEN {UpdateResourceMetadataRequest}
             \cup {CreateReservationRequest(iv) : iv \in Intervals}
             \cup {CancelReservationRequest(r) : r \in knownReservationIds(b)}
        ELSE {})

\* users_projection holds the users the tokens were issued to, and no command
\* on a resource changes it
getUserById(userId) == userId \in {Admin.sub, User1.sub}

\* resources_projection lags behind the bucket: a name is found only if a
\* ResourceCreated event with it is stored, and then it may still be missing
resourceNameTakenAnswers(b, name) ==
  {FALSE} \cup {b[k].payload.name = name :
                  k \in {j \in DOMAIN b : Len(j) = 3 /\ b[j].type = "ResourceCreated"}}

\* content: { path: req.path, body: parsed, actor: auth.sub }
contentOf(request) ==
  [path |-> "/commands/resource", body |-> [command |-> request.input], actor |-> request.auth.sub]

Configs ==
  [snapshotEveryDefault : {500},
   snapshotByStreamType : {[resource |-> SnapshotEvery, user |-> 0],
                           [resource |-> 0, user |-> 0]},
   versionConflictMaxRetries : 0 .. MaxRetries,
   emitConcurrencyConflictUnresolvedEvent : BOOLEAN]
  \cup
  \* SNAPSHOT_BY_STREAM_TYPE without an entry for resource: the default applies
  [snapshotEveryDefault : {SnapshotEvery},
   snapshotByStreamType : {[user |-> 0]},
   versionConflictMaxRetries : {0},
   emitConcurrencyConflictUnresolvedEvent : {FALSE}]

\* ------------------------------------------------------------------------
\* Projector and projection store (projections/projector.ts, projections/store.ts)
\* ------------------------------------------------------------------------
\* project: one recorded event to its ordered list of projection ops
project(recordedEvent) ==
  LET payload == recordedEvent.payload
      occurredAtUtc == recordedEvent.occurredAtUtc
  IN
  IF recordedEvent.type = "AdminBootstrapped" THEN
    <<[kind |-> "putUser",
       item |-> [userId |-> payload.userId, email |-> payload.email,
                 passwordHash |-> payload.passwordHash, role |-> "admin",
                 createdAtUtc |-> occurredAtUtc]]>>
  ELSE IF recordedEvent.type = "UserRegistered" THEN
    <<[kind |-> "putUser",
       item |-> [userId |-> payload.userId, email |-> payload.email,
                 passwordHash |-> payload.passwordHash, role |-> payload.role,
                 createdAtUtc |-> occurredAtUtc]]>>
  ELSE IF recordedEvent.type = "UserLoggedIn" THEN
    <<[kind |-> "setUserLastLoginAtUtc", userId |-> payload.userId,
       lastLoginAtUtc |-> occurredAtUtc]>>
  ELSE IF recordedEvent.type = "ResourceCreated" THEN
    <<[kind |-> "putResource",
       item |-> [resourceId |-> payload.resourceId, name |-> payload.name,
                 details |-> payload.details, status |-> "active",
                 createdAtUtc |-> occurredAtUtc, updatedAtUtc |-> occurredAtUtc]]>>
  ELSE IF recordedEvent.type = "ResourceMetadataUpdated" THEN
    <<[kind |-> "updateResourceDetails", resourceId |-> payload.resourceId,
       details |-> payload.details, updatedAtUtc |-> occurredAtUtc]>>
  ELSE IF recordedEvent.type = "ReservationAddedToResource" THEN
    <<[kind |-> "putReservation",
       item |-> [reservationId |-> payload.reservationId, resourceId |-> payload.resourceId,
                 userId |-> payload.userId, fromUtc |-> payload.fromUtc,
                 toUtc |-> payload.toUtc, status |-> "active",
                 createdAtUtc |-> payload.createdAtUtc, cancelledAtUtc |-> <<>>]]>>
  ELSE IF recordedEvent.type = "ResourceReservationCancelled" THEN
    <<[kind |-> "cancelReservation", reservationId |-> payload.reservationId,
       cancelledAtUtc |-> payload.cancelledAtUtc]>>
  ELSE <<>>

\* PutCommand: the item replaces whatever is stored under its key
putItem(table, key, item) ==
  [k \in DOMAIN table \cup {key} |-> IF k = key THEN item ELSE table[k]]

\* UpdateCommand with a SET expression and no condition: the attributes are
\* set on the stored item, and an item holding the key and the attributes is
\* created when none is stored
updateItem(table, keyName, key, attributes) ==
  LET stored == IF key \in DOMAIN table THEN table[key] ELSE (keyName :> key)
      fields == DOMAIN stored \cup DOMAIN attributes
  IN putItem(table, key,
             [f \in fields |-> IF f \in DOMAIN attributes THEN attributes[f] ELSE stored[f]])

EmptyTables == [users |-> <<>>, resources |-> <<>>, reservations |-> <<>>]

\* one step of applyProjectionOps: the ddbSend of one op
applyProjectionOp(store, op) ==
  IF op.kind = "putUser" THEN
    [store EXCEPT !.users = putItem(@, op.item.userId, op.item)]
  ELSE IF op.kind = "setUserLastLoginAtUtc" THEN
    [store EXCEPT !.users = updateItem(@, "userId", op.userId,
                                       [lastLoginAtUtc |-> op.lastLoginAtUtc])]
  ELSE IF op.kind = "putResource" THEN
    [store EXCEPT !.resources = putItem(@, op.item.resourceId, op.item)]
  ELSE IF op.kind = "updateResourceDetails" THEN
    [store EXCEPT !.resources = updateItem(@, "resourceId", op.resourceId,
                                           [details |-> op.details,
                                            updatedAtUtc |-> op.updatedAtUtc])]
  ELSE IF op.kind = "putReservation" THEN
    [store EXCEPT !.reservations = putItem(@, op.item.reservationId, op.item)]
  ELSE
    [store EXCEPT !.reservations = updateItem(@, "reservationId", op.reservationId,
                                              [status |-> "cancelled",
                                               cancelledAtUtc |-> <<op.cancelledAtUtc>>])]

RECURSIVE applyProjectionOps(_, _)
\* ops.reduce: the ops one after the other
applyProjectionOps(store, ops) ==
  IF ops = <<>> THEN store
  ELSE applyProjectionOps(applyProjectionOp(store, Head(ops)), Tail(ops))

\* upsertProjectionLag called by the worker for a projected event
projectionLagOf(recordedEvent) ==
  [projection |-> "main", lastProjectedAtUtc |-> recordedEvent.occurredAtUtc,
   eventsBehind |-> 0]

\* ------------------------------------------------------------------------
\* Queue messages (application/projection-worker.ts)
\* ------------------------------------------------------------------------
\* A body sent by enqueueEvent is the JSON text of the recorded event, which
\* JSON.parse turns back into the event; a body some other sender put on the
\* queue may be empty or not be JSON at all.
EmptyBody == [text |-> ""]
MalformedBody == [text |-> "{"]

\* parseRecordedEvent: an empty Body rejects with EMPTY_MESSAGE_BODY, and
\* JSON.parse throws on a text that is not JSON before any promise exists
parseRecordedEvent(body) ==
  IF "text" \notin DOMAIN body THEN [kind |-> "resolved", recordedEvent |-> body]
  ELSE IF body.text = "" THEN [kind |-> "rejected", message |-> "EMPTY_MESSAGE_BODY"]
  ELSE [kind |-> "thrown", message |-> "SyntaxError"]

\* ------------------------------------------------------------------------
\* State
\* ------------------------------------------------------------------------
VARIABLES
  requestBudget,     \* the number of requests the clients send over a behaviour
  config,            \* the configuration the process was started with (config.ts)
  faults,            \* the calls of the deployment that can fail: listing, publish, snapshot
  bucket,            \* the S3 bucket: events and snapshots by key
  queue,             \* the SQS standard queue: the bag of message bodies sent
  idempotencyTable,  \* the DynamoDB idempotency table: record or null by key
  procs,             \* the requests in flight: position and locals of each slot
  usedResourceIds,   \* the resource ids randomUUID() has handed out
  received,          \* number of requests received so far
  responses,         \* history: the responses sent, with their request
  appendCalls,       \* history: the appendEvent calls that reached the store
  inflight,          \* the messages received and not deleted, invisible to ReceiveMessage
  tasks,             \* the worker's promise chain of each message it is processing
  awaited,           \* the messages whose chains the worker loop waits for (Promise.all)
  tables,            \* the projection tables: users, resources, reservations
  projectionLag,     \* the row of the projection lag table, or null
  failuresLeft,      \* the calls of the worker that can still fail
  projectedEvents,   \* history: the events whose ops were applied, in that order
  aggregates,        \* the state and version of the resource and of the user a decider is called on
  decided            \* history: the last call of a decider, or null

commandVars == <<requestBudget, config, faults, bucket, idempotencyTable, procs,
                 usedResourceIds, received, responses, appendCalls>>
workerVars == <<inflight, tasks, awaited, tables, projectionLag, failuresLeft, projectedEvents>>
deciderVars == <<aggregates, decided>>
vars == <<commandVars, queue, workerVars, deciderVars>>

\* no event of either stream was recorded
NoAggregates == [resource |-> [state |-> null, version |-> 0],
                 user |-> [state |-> null, version |-> 0]]

IdleProc ==
  [pc |-> "idle", req |-> 0, idempotencyKey |-> "", contentHash |-> <<>>,
   auth |-> null, input |-> null, command |-> null, remainingRetries |-> 0,
   direct |-> FALSE, emitting |-> FALSE, uuids |-> 0, snapshot |-> null, state |-> null,
   loads |-> <<>>, lastEventVersion |-> 0, recordedEvent |-> null, result |-> null,
   projection |-> null]

\* What earlier requests left in the bucket when the behaviour starts: nothing,
\* the stream of a created resource, or that stream with one reservation.
\* Each is built by the runner's own append and snapshot steps.
SeedResourceCreated ==
  recordEvent(<<-1, 1>>, ResourceId, "resource", 1, "ResourceCreated",
              [resourceId |-> ResourceId, name |-> "SalaA", details |-> "Piso 1"],
              [command |-> "CreateResource", actorUserId |-> Admin.sub])

SeedReservationAdded ==
  recordEvent(<<0, 1>>, ResourceId, "resource", 2, "ReservationAddedToResource",
              [resourceId |-> ResourceId, reservationId |-> 0, userId |-> User1.sub,
               fromUtc |-> NowUtc, toUtc |-> NowUtc + 2, createdAtUtc |-> NowUtc],
              [command |-> "CreateReservationInResource", actorUserId |-> User1.sub])

seedAppend(b, cfg, recordedEvent) ==
  LET stateBefore == buildResourceState(loadStream(b, "resource", ResourceId).events)
  IN maybeWriteSnapshot(appendEvent(b, recordedEvent, recordedEvent.version - 1).bucket,
                        cfg, "resource", ResourceId, recordedEvent.version,
                        foldResource(stateBefore,
                                     [type |-> recordedEvent.type,
                                      payload |-> recordedEvent.payload]))

SeedBuckets(cfg) ==
  {<<>>,
   seedAppend(<<>>, cfg, SeedResourceCreated),
   seedAppend(seedAppend(<<>>, cfg, SeedResourceCreated), cfg, SeedReservationAdded)}

\* the state after the server started, with the fault kinds the deployment shows
InitWith(configs, faultSets, budget) ==
  /\ requestBudget = budget
  /\ config \in configs
  /\ faults \in faultSets
  /\ bucket \in SeedBuckets(config)
  /\ queue = EmptyBag
  /\ idempotencyTable = [k \in IdempotencyKeys |-> null]
  /\ procs = [p \in Procs |-> IdleProc]
  /\ usedResourceIds = {bucket[k].streamId : k \in DOMAIN bucket}
  /\ received = 0
  /\ responses = {}
  /\ appendCalls = {[eventId |-> bucket[k].eventId, version |-> bucket[k].version,
                     result |-> ok] : k \in {j \in DOMAIN bucket : Len(j) = 3}}
  /\ inflight = {}
  /\ tasks = <<>>
  /\ awaited = {}
  /\ tables = EmptyTables
  /\ projectionLag = null
  /\ failuresLeft = 0
  /\ projectedEvents = <<>>
  /\ aggregates = NoAggregates
  /\ decided = null

\* every call to S3 and SQS answers, and every listing is complete
Init == InitWith(Configs, {{}}, MaxRequests)

\* one kind of call misbehaves: ListObjectsV2 leaves out keys of stored
\* events, SendMessage fails, or the PutObject of a snapshot fails
FaultKinds == {"listing", "publish", "snapshot"}
\* in a deployment that snapshots the resource streams every SnapshotEvery events
InitFaults ==
  InitWith({cfg \in Configs : snapshotThresholdOf(cfg, "resource") = SnapshotEvery
                                 /\ "resource" \in DOMAIN cfg.snapshotByStreamType},
           {{f} : f \in FaultKinds}, MaxRequests)

responseRecord(req, idempotencyKey, contentHash, kind, saved, result) ==
  [req |-> req, idempotencyKey |-> idempotencyKey, contentHash |-> contentHash,
   kind |-> kind, saved |-> saved, statusCode |-> result.statusCode, body |-> result.body]

\* send(res): the response leaves the server and the slot is free again;
\* saved is the outcome of the request's saveIdempotency call, if it made one
Respond(p, saved, result) ==
  /\ responses' = responses \cup
       {responseRecord(procs[p].req, procs[p].idempotencyKey, procs[p].contentHash,
                       "new", saved, result)}
  /\ procs' = [procs EXCEPT ![p] = IdleProc]

\* the commandOf closure the handler passes to applyResourceCommand
commandOf(proc) ==
  IF proc.input.type = "UpdateResourceMetadata" THEN
    buildUpdateResourceMetadataCommand(proc.input.payload.resourceId, proc.input.payload.details,
                                       proc.auth.sub, proc.auth.role)
  ELSE IF proc.input.type = "CancelReservationInResource" THEN
    buildCancelReservationCommand(proc.input.payload.resourceId,
                                  proc.input.payload.reservationId,
                                  proc.auth.sub, proc.auth.role, NowUtc)
  ELSE proc.command

\* the onAccepted / success closure of each handler
onAccepted(proc, event) ==
  IF proc.input.type = "CreateResource" THEN response(201, [resourceId |-> event.payload.resourceId])
  ELSE IF proc.input.type = "CreateReservationInResource" THEN
    IF event.type = "ReservationAddedToResource"
    THEN response(201, [reservationId |-> event.payload.reservationId])
    ELSE response(500, [error |-> [code |-> "EVENT_TYPE_MISMATCH",
                                   meta |-> [eventType |-> event.type]]])
  ELSE response(200, [ok |-> TRUE])

\* applyResourceCommand without its catch: the VersionConflictError reaches safe
versionConflictUncaught(proc, cfg) == internalError(messageOf(VERSION_CONFLICT))

versionConflictResponse(proc, cfg) ==
  domainErrorResponse(
    domainError(VERSION_CONFLICT,
                [resourceId |-> proc.input.payload.resourceId, commandName |-> proc.input.type,
                 actorUserId |-> proc.auth.sub, attempts |-> retriesOf(cfg) + 1]))

\* ------------------------------------------------------------------------
\* Steps of a request
\* ------------------------------------------------------------------------

\* the keys earlier requests carried
usedKeys ==
  {r.idempotencyKey : r \in responses}
  \cup {procs[q].idempotencyKey : q \in {x \in Procs : procs[x].pc # "idle"}}

\* POST /commands/resource up to the answer of loadIdempotency: runIdempotent's
\* replay and mismatch branches reply at once; the new branch calls action(),
\* which runs to the handler's first await (the read-side lookup of
\* CreateResource and CreateReservationInResource, getLatestSnapshot otherwise).
\* Free slots are interchangeable, and so are the keys no request has carried:
\* the lowest free slot takes the request, and a new key is the lowest unused.
RunIdempotent(p) ==
  /\ procs[p].pc = "idle"
  /\ \A q \in Procs : procs[q].pc = "idle" => p <= q
  /\ received < requestBudget
  /\ \E i \in 1 .. Len(KeyNames), request \in ResourceRequests(bucket) :
       LET idempotencyKey == KeyNames[i]
           content == contentOf(request)
           existing == idempotencyTable[idempotencyKey]
           decision == idempotencyDecision(existing, idempotencyKey, content)
           req == received + 1
           contentHash == hashContent(content)
           awaitsLookup == request.input.type \in {"CreateResource",
                                                   "CreateReservationInResource"}
       IN /\ \A j \in 1 .. (i - 1) : KeyNames[j] \in usedKeys
          /\ received' = req
          /\ IF decision.kind = "replay" THEN
               /\ responses' = responses \cup
                    {responseRecord(req, idempotencyKey, contentHash, "replay", "none",
                                    response(decision.record.statusCode,
                                             decision.record.responseBody))}
               /\ UNCHANGED procs
             ELSE IF decision.kind = "mismatch" THEN
               /\ responses' = responses \cup
                    {responseRecord(req, idempotencyKey, contentHash, "mismatch", "none",
                                    domainErrorResponse(decision.error))}
               /\ UNCHANGED procs
             ELSE
               /\ procs' = [procs EXCEPT ![p] =
                    [IdleProc EXCEPT !.pc = IF awaitsLookup THEN "action" ELSE "loadSnapshot",
                                     !.req = req,
                                     !.idempotencyKey = idempotencyKey,
                                     !.contentHash = decision.contentHash,
                                     !.auth = request.auth, !.input = request.input,
                                     !.remainingRetries = retriesOf(config)]]
               /\ UNCHANGED responses
  /\ UNCHANGED <<deciderVars, workerVars, requestBudget, config, faults, bucket, queue, idempotencyTable, usedResourceIds, appendCalls>>

\* The handler of CreateResource or CreateReservationInResource once its
\* read-side lookup (resourceNameTaken / getUserById) answered: the builder and, for CreateResource, decideResource(null, command) and
\* recordEvent of applyResourceEvent.
ExecuteResourceCommand(p) ==
  LET proc == procs[p]
      payload == proc.input.payload
  IN
  /\ proc.pc = "action"
  /\ IF proc.input.type = "CreateResource" THEN
       \E nameTaken \in resourceNameTakenAnswers(bucket, payload.name) :
         LET built == buildCreateResourceCommand(nameTaken, ResourceId, payload.name,
                                                 payload.details, proc.auth.sub, proc.auth.role)
             decision == decideResource(null, built.value)
         IN \* one stream is modelled: once its id is handed out, a create
            \* that is not rejected here goes to a stream of its own
            /\ ResourceId \in usedResourceIds => nameTaken
            /\ IF built.kind # ok THEN
                 /\ procs' = [procs EXCEPT ![p].pc = "save",
                                           ![p].result = domainErrorResponse(built.error)]
                 /\ UNCHANGED usedResourceIds
               ELSE
                 /\ usedResourceIds' = usedResourceIds \cup {ResourceId}
                 /\ IF decision.kind = "rejected" THEN
                      procs' = [procs EXCEPT ![p].pc = "save",
                                             ![p].result = domainErrorResponse(decision.error)]
                    ELSE
                      procs' = [procs EXCEPT
                        ![p].pc = "append", ![p].direct = TRUE, ![p].uuids = 1,
                        ![p].command = built.value,
                        ![p].recordedEvent =
                          recordEvent(<<proc.req, 1>>, decision.event.payload.resourceId,
                                      "resource", 0 + 1, decision.event.type,
                                      decision.event.payload,
                                      [command |-> "CreateResource",
                                       actorUserId |-> proc.auth.sub])]
     ELSE
       \E reservationUserExists \in {getUserById(proc.auth.sub)} :
         LET built == buildCreateReservationCommand(payload.resourceId, proc.req,
                        payload.fromUtc, payload.toUtc, proc.auth.sub, reservationUserExists,
                        proc.auth.sub, proc.auth.role, NowUtc)
         IN /\ procs' = [procs EXCEPT ![p] =
                 IF built.kind # ok
                 THEN [proc EXCEPT !.pc = "save", !.result = domainErrorResponse(built.error)]
                 ELSE [proc EXCEPT !.pc = "loadSnapshot", !.command = built.value]]
            /\ UNCHANGED usedResourceIds
  /\ UNCHANGED <<deciderVars, workerVars, requestBudget, config, faults, bucket, queue, idempotencyTable, received, responses, appendCalls>>

\* loadStateFromSnapshotAndTail, first await: getLatestSnapshot
GetLatestSnapshot(p) ==
  /\ procs[p].pc = "loadSnapshot"
  /\ \E readFails \in readFailures(faults) :
       IF readFails THEN
         \* the rejection is swallowed only around the telemetry append
         IF procs[p].emitting
         THEN /\ procs' = [procs EXCEPT ![p].pc = "save"]
              /\ UNCHANGED responses
         ELSE Respond(p, "none", internalError(messageOf("ServiceUnavailable")))
       ELSE
         /\ procs' = [procs EXCEPT ![p].pc = "loadTail",
                                   ![p].snapshot = getLatestSnapshot(bucket, "resource",
                                                                     ResourceId)]
         /\ UNCHANGED responses
  /\ UNCHANGED <<deciderVars, workerVars, requestBudget, config, faults, bucket, queue, idempotencyTable, usedResourceIds, received,
                 appendCalls>>

\* loadStateFromSnapshotAndTail, second await: loadStreamWithGapRetry, the fold,
\* and the synchronous code that follows it: decideResource, toCommandResult and
\* recordEvent (or the recordEvent of the ConcurrencyConflictUnresolved event).
LoadTail(p) ==
  LET proc == procs[p]
      fromVersion == IF proc.snapshot # null THEN proc.snapshot.lastEventVersion + 1 ELSE 1
      meta == [command |-> proc.input.type, actorUserId |-> proc.auth.sub]
  IN
  /\ proc.pc = "loadTail"
  /\ \E first, second \in listedViews(bucket, "resource", ResourceId, "listing" \in faults),
        readFails \in readFailures(faults) :
     LET loaded == loadStreamWithGapRetry(first, second, "resource", ResourceId, fromVersion)
         rehydrated == stateFromSnapshotAndTail(proc.snapshot, loaded.events)
         decision == decideResource(rehydrated.state, commandOf(proc))
     IN
     IF readFails THEN
       \* ListObjectsV2 or GetObject rejects: nothing is loaded
       IF proc.emitting
       THEN /\ procs' = [procs EXCEPT ![p].pc = "save"]
            /\ UNCHANGED responses
       ELSE Respond(p, "none", internalError(messageOf("ServiceUnavailable")))
     ELSE IF loaded.result # ok THEN
       IF proc.emitting
       THEN /\ procs' = [procs EXCEPT ![p].pc = "save", ![p].loads = loaded.loads]
            /\ UNCHANGED responses
       ELSE Respond(p, "none", internalError(messageOf(STREAM_GAP_DETECTED)))
     ELSE
       /\ UNCHANGED responses
       /\ IF proc.emitting THEN
            procs' = [procs EXCEPT
              ![p].pc = "append", ![p].uuids = proc.uuids + 1,
              ![p].state = rehydrated.state,
              ![p].lastEventVersion = rehydrated.lastEventVersion,
                                   ![p].loads = loaded.loads,
              ![p].recordedEvent =
                recordEvent(<<proc.req, proc.uuids + 1>>, ResourceId, "resource",
                            rehydrated.lastEventVersion + 1, "ConcurrencyConflictUnresolved",
                            [resourceId |-> ResourceId, commandName |-> proc.input.type,
                             actorUserId |-> proc.auth.sub,
                             attempts |-> retriesOf(config) + 1,
                             lastKnownVersion |-> rehydrated.lastEventVersion],
                            meta)]
          ELSE IF decision.kind = "rejected" THEN
            procs' = [procs EXCEPT ![p].pc = "save",
                                   ![p].state = rehydrated.state,
                                   ![p].lastEventVersion = rehydrated.lastEventVersion,
                                   ![p].loads = loaded.loads,
                                   ![p].result = domainErrorResponse(decision.error)]
          ELSE
            procs' = [procs EXCEPT
              ![p].pc = "append", ![p].uuids = proc.uuids + 1,
              ![p].state = rehydrated.state,
              ![p].lastEventVersion = rehydrated.lastEventVersion,
                                   ![p].loads = loaded.loads,
              ![p].recordedEvent =
                recordEvent(<<proc.req, proc.uuids + 1>>, ResourceId, "resource",
                            rehydrated.lastEventVersion + 1, decision.event.type,
                            decision.event.payload, meta)]
  /\ UNCHANGED <<deciderVars, workerVars, requestBudget, config, faults, bucket, queue, idempotencyTable, usedResourceIds, received,
                 appendCalls>>

\* the retry repeats only the append, at the next version, with the event
\* decided on the state loaded before the conflict
AppendEventWithoutRehydration(p) ==
  LET proc == procs[p]
      put == appendEvent(bucket, proc.recordedEvent, proc.lastEventVersion)
  IN
  /\ proc.pc = "append"
  /\ bucket' = put.bucket
  /\ appendCalls' = appendCalls \cup
       {[eventId |-> proc.recordedEvent.eventId, version |-> proc.recordedEvent.version,
         result |-> put.result]}
  /\ IF put.result = ok THEN
       /\ procs' = [procs EXCEPT ![p].pc = "publish"]
       /\ UNCHANGED responses
     ELSE IF proc.emitting THEN
       /\ procs' = [procs EXCEPT ![p].pc = "save"]
       /\ UNCHANGED responses
     ELSE IF proc.direct THEN
       Respond(p, "none", internalError(messageOf(VERSION_CONFLICT)))
     ELSE IF proc.remainingRetries > 0 THEN
       /\ procs' = [procs EXCEPT
            ![p].remainingRetries = proc.remainingRetries - 1,
            ![p].uuids = proc.uuids + 1,
            ![p].lastEventVersion = proc.lastEventVersion + 1,
            ![p].recordedEvent = [proc.recordedEvent EXCEPT
                                    !.eventId = <<proc.req, proc.uuids + 1>>,
                                    !.version = proc.lastEventVersion + 2]]
       /\ UNCHANGED responses
     ELSE
       /\ procs' = [procs EXCEPT
            ![p].pc = IF config.emitConcurrencyConflictUnresolvedEvent
                      THEN "loadSnapshot" ELSE "save",
            ![p].emitting = config.emitConcurrencyConflictUnresolvedEvent,
            ![p].result = versionConflictResponse(proc, config)]
       /\ UNCHANGED responses
  /\ UNCHANGED <<deciderVars, workerVars, requestBudget, config, faults, queue, idempotencyTable, usedResourceIds, received>>

\* the rejection of the telemetry append reaches the caller
AppendEventTelemetryUncaught(p) ==
  LET proc == procs[p]
      put == appendEvent(bucket, proc.recordedEvent, proc.lastEventVersion)
  IN
  /\ proc.pc = "append"
  /\ bucket' = put.bucket
  /\ appendCalls' = appendCalls \cup
       {[eventId |-> proc.recordedEvent.eventId, version |-> proc.recordedEvent.version,
         result |-> put.result]}
  /\ IF put.result = ok THEN
       /\ procs' = [procs EXCEPT ![p].pc = "publish"]
       /\ UNCHANGED responses
     ELSE IF proc.emitting THEN
       Respond(p, "none", internalError(messageOf(VERSION_CONFLICT)))
     ELSE IF proc.direct THEN
       Respond(p, "none", internalError(messageOf(VERSION_CONFLICT)))
     ELSE IF proc.remainingRetries > 0 THEN
       /\ procs' = [procs EXCEPT ![p].pc = "loadSnapshot",
                                 ![p].remainingRetries = proc.remainingRetries - 1]
       /\ UNCHANGED responses
     ELSE
       /\ procs' = [procs EXCEPT
            ![p].pc = IF config.emitConcurrencyConflictUnresolvedEvent
                      THEN "loadSnapshot" ELSE "save",
            ![p].emitting = config.emitConcurrencyConflictUnresolvedEvent,
            ![p].result = versionConflictResponse(proc, config)]
       /\ UNCHANGED responses
  /\ UNCHANGED <<deciderVars, workerVars, requestBudget, config, faults, queue, idempotencyTable, usedResourceIds, received>>

\* the enqueue is chained to the appendEvent call whether it resolved or not
AppendEventThenPublishAlways(p) ==
  LET proc == procs[p]
      put == appendEvent(bucket, proc.recordedEvent, proc.lastEventVersion)
  IN
  /\ proc.pc = "append"
  /\ bucket' = put.bucket
  /\ appendCalls' = appendCalls \cup
       {[eventId |-> proc.recordedEvent.eventId, version |-> proc.recordedEvent.version,
         result |-> put.result]}
  /\ IF put.result = ok \/ proc.direct \/ ~proc.emitting THEN
       /\ procs' = [procs EXCEPT ![p].pc = "publish"]
       /\ UNCHANGED responses
     ELSE IF proc.emitting THEN
       /\ procs' = [procs EXCEPT ![p].pc = "save"]
       /\ UNCHANGED responses
     ELSE IF proc.direct THEN
       Respond(p, "none", internalError(messageOf(VERSION_CONFLICT)))
     ELSE IF proc.remainingRetries > 0 THEN
       /\ procs' = [procs EXCEPT ![p].pc = "loadSnapshot",
                                 ![p].remainingRetries = proc.remainingRetries - 1]
       /\ UNCHANGED responses
     ELSE
       /\ procs' = [procs EXCEPT
            ![p].pc = IF config.emitConcurrencyConflictUnresolvedEvent
                      THEN "loadSnapshot" ELSE "save",
            ![p].emitting = config.emitConcurrencyConflictUnresolvedEvent,
            ![p].result = versionConflictResponse(proc, config)]
       /\ UNCHANGED responses
  /\ UNCHANGED <<deciderVars, workerVars, requestBudget, config, faults, queue, idempotencyTable, usedResourceIds, received>>

\* appendEvent reaches the store; on VERSION_CONFLICT withVersionConflictRetries
\* restarts the attempt, and applyResourceCommand's catch ends the command
AppendEvent(p) ==
  LET proc == procs[p] IN
  /\ proc.pc = "append"
  /\ \E s3error \in putObjectErrors(faults) :
     LET put == appendEventOutcome(bucket, proc.recordedEvent, proc.lastEventVersion, s3error)
     IN
     /\ bucket' = put.bucket
     /\ appendCalls' = appendCalls \cup
          {[eventId |-> proc.recordedEvent.eventId, version |-> proc.recordedEvent.version,
            result |-> put.result]}
     /\ IF put.result = ok THEN
          /\ procs' = [procs EXCEPT ![p].pc = "publish"]
          /\ UNCHANGED responses
        ELSE IF proc.emitting THEN
          /\ procs' = [procs EXCEPT ![p].pc = "save"]
          /\ UNCHANGED responses
        ELSE IF proc.direct \/ put.result # VERSION_CONFLICT THEN
          \* not a VersionConflictError, or no retry wrapper and no catch around it
          Respond(p, "none", internalError(messageOf(put.result)))
        ELSE IF proc.remainingRetries > 0 THEN
          /\ procs' = [procs EXCEPT ![p].pc = "loadSnapshot",
                                    ![p].remainingRetries = proc.remainingRetries - 1]
          /\ UNCHANGED responses
        ELSE
          /\ procs' = [procs EXCEPT
               ![p].pc = IF config.emitConcurrencyConflictUnresolvedEvent
                         THEN "loadSnapshot" ELSE "save",
               ![p].emitting = config.emitConcurrencyConflictUnresolvedEvent,
               ![p].result = versionConflictResponse(proc, config)]
          /\ UNCHANGED responses
  /\ UNCHANGED <<deciderVars, workerVars, requestBudget, config, faults, queue, idempotencyTable, usedResourceIds, received>>

\* enqueueRecordedEvent after the append succeeded; when maybeWriteSnapshot has
\* nothing to write, the success response follows without another store call
Publish(p) ==
  LET proc == procs[p]
      event == [type |-> proc.recordedEvent.type, payload |-> proc.recordedEvent.payload]
  IN
  /\ proc.pc = "publish"
  /\ \E sendFails \in IF "publish" \in faults THEN BOOLEAN ELSE {FALSE} :
       IF sendFails THEN
         \* the rejection of sqs.send is caught only around the telemetry append
         /\ UNCHANGED queue
         /\ IF proc.emitting
            THEN /\ procs' = [procs EXCEPT ![p].pc = "save"]
                 /\ UNCHANGED responses
            ELSE Respond(p, "none", internalError(messageOf("SendMessage failed")))
       ELSE
         /\ queue' = queue (+) SetToBag({proc.recordedEvent})
         /\ procs' = [procs EXCEPT ![p] =
              IF proc.emitting THEN [proc EXCEPT !.pc = "save"]
              ELSE IF shouldSnapshot(config, "resource", proc.lastEventVersion + 1)
                   THEN [proc EXCEPT !.pc = "snapshot"]
                   ELSE [proc EXCEPT !.pc = "save", !.result = onAccepted(proc, event)]]
         /\ UNCHANGED responses
  /\ UNCHANGED <<deciderVars, workerVars, requestBudget, config, faults, bucket, idempotencyTable, usedResourceIds, received, appendCalls>>

\* the putSnapshot of maybeWriteSnapshot and the success response of applyResourceEvent
MaybeWriteSnapshot(p) ==
  LET proc == procs[p]
      event == [type |-> proc.recordedEvent.type, payload |-> proc.recordedEvent.payload]
  IN
  /\ proc.pc = "snapshot"
  /\ \E putFails \in IF "snapshot" \in faults THEN BOOLEAN ELSE {FALSE} :
       IF putFails THEN
         \* an error other than PreconditionFailed: putSnapshot rejects, and
         \* neither maybeWriteSnapshot nor applyResourceEvent catches it
         /\ UNCHANGED bucket
         /\ Respond(p, "none", internalError(messageOf("PutObject failed")))
       ELSE
         /\ bucket' = maybeWriteSnapshot(bucket, config, "resource", proc.recordedEvent.streamId,
                                         proc.lastEventVersion + 1,
                                         foldResource(proc.state, event))
         /\ procs' = [procs EXCEPT ![p].pc = "save", ![p].result = onAccepted(proc, event)]
         /\ UNCHANGED responses
  /\ UNCHANGED <<deciderVars, workerVars, requestBudget, config, faults, queue, idempotencyTable, usedResourceIds, received, appendCalls>>

\* runIdempotent after action() resolved: saveIdempotency, whose failure (the
\* record exists, or the table call fails) is caught, and the reply
SaveIdempotency(p) ==
  LET proc == procs[p]
      saved == saveIdempotency(idempotencyTable,
                 [idempotencyKey |-> proc.idempotencyKey, contentHash |-> proc.contentHash,
                  statusCode |-> proc.result.statusCode, responseBody |-> proc.result.body,
                  createdAtUtc |-> NowUtc])
  IN
  /\ proc.pc = "save"
  /\ \E tableCallFails \in BOOLEAN :
       /\ idempotencyTable' = IF tableCallFails THEN idempotencyTable ELSE saved.table
       /\ Respond(p, IF tableCallFails THEN "error" ELSE saved.result, proc.result)
  /\ UNCHANGED <<deciderVars, workerVars, requestBudget, config, faults, bucket, queue, usedResourceIds, received, appendCalls>>

Next ==
  \E p \in Procs :
    \/ RunIdempotent(p)
    \/ ExecuteResourceCommand(p)
    \/ GetLatestSnapshot(p)
    \/ LoadTail(p)
    \/ AppendEvent(p)
    \/ Publish(p)
    \/ MaybeWriteSnapshot(p)
    \/ SaveIdempotency(p)

Spec == Init /\ [][Next]_vars

SpecFaults == InitFaults /\ [][Next]_vars

\* the calls to S3 that load a stream or append an event can fail
InitStoreErrors ==
  InitWith({cfg \in Configs : cfg.snapshotEveryDefault = 500}, {{"store"}}, MaxRequests)

SpecStoreErrors == InitStoreErrors /\ [][Next]_vars

\* three clients write to one stream and the deployment retries no lost
\* append, so that a request can lose the append of its command to one writer
\* and, where unresolved conflicts are recorded, the append of its telemetry
\* event to another
InitContended ==
  InitWith({cfg \in Configs : /\ retriesOf(cfg) = 0
                              /\ "resource" \in DOMAIN cfg.snapshotByStreamType
                              /\ snapshotThresholdOf(cfg, "resource") = SnapshotEvery},
           {{}}, MaxRequestsContended)
SpecContended == InitContended /\ [][Next]_vars

\* three requests without retries, where the enqueue of a stored event can
\* fail: a request ends with a success, a rejection, a 409 or a 500, and a
\* later request can repeat its key
InitErrors ==
  InitWith({cfg \in Configs : /\ retriesOf(cfg) = 0
                              /\ "resource" \in DOMAIN cfg.snapshotByStreamType
                              /\ snapshotThresholdOf(cfg, "resource") = SnapshotEvery
                              /\ ~cfg.emitConcurrencyConflictUnresolvedEvent},
           {{"publish"}}, MaxRequestsContended)
SpecErrors == InitErrors /\ [][Next]_vars

\* ------------------------------------------------------------------------
\* Projection worker (application/projection-worker.ts)
\* ------------------------------------------------------------------------
\* the chain of a message whose body was decoded: applyProjectionOps, then
\* upsertProjectionLag, then deleteMessage; opsApplied and lagUpserted record
\* what the chain has done for this delivery
newTask(recordedEvent) ==
  [pc |-> IF project(recordedEvent) = <<>> THEN "lag" ELSE "apply",
   ops |-> project(recordedEvent), recordedEvent |-> recordedEvent,
   opsApplied |-> 0, lagUpserted |-> FALSE]

\* the catch is placed before the acknowledgement, which then follows a failure too
taskAfterFailureAcked(task) == [task EXCEPT !.pc = "delete"]

\* no catch: the rejection reaches Promise.all and the loop, which does not go on
taskAfterFailureUncaught(task) == [task EXCEPT !.pc = "rejected"]

\* .catch(() => Promise.resolve()): a rejection ends the chain of the message
taskAfterFailure(task) == [task EXCEPT !.pc = "settled"]

\* the chains after the chain of message moved on to task
settle(message, task) ==
  IF task.pc = "settled"
  THEN /\ tasks' = [m \in DOMAIN tasks \ {message} |-> tasks[m]]
       /\ awaited' = awaited \ {message}
  ELSE /\ tasks' = [tasks EXCEPT ![message] = task]
       /\ UNCHANGED awaited

RECURSIVE startedChains(_, _, _)
\* messages.map: the chains started for a batch, in order; a body whose
\* JSON.parse throws ends the map, and a body that rejects ends its own chain
startedChains(batch, i, started) ==
  IF i > Len(batch) THEN [started |-> started, thrown |-> FALSE]
  ELSE LET parsed == parseRecordedEvent(batch[i]) IN
       IF parsed.kind = "thrown" THEN [started |-> started, thrown |-> TRUE]
       ELSE IF parsed.kind = "rejected" THEN startedChains(batch, i + 1, started)
       ELSE startedChains(batch, i + 1, started \cup {batch[i]})

\* what ReceiveMessage can return: up to BatchSize of the visible messages
batchesOf(visible) ==
  {batch \in UNION {[1 .. n -> visible] : n \in 1 .. BatchSize} :
     \A i, j \in 1 .. Len(batch) : i # j => batch[i] # batch[j]}

\* the calls that can fail do so while failures are left
outcomes == IF failuresLeft > 0 THEN BOOLEAN ELSE {FALSE}
countFailure(fails) == failuresLeft' = IF fails THEN failuresLeft - 1 ELSE failuresLeft

\* workerLoop: processBatch once the previous one settled. A rejected
\* ReceiveMessage is swallowed by the loop, and so is the exception of a
\* JSON.parse, which leaves the chains already started running on their own.
ReceiveMessages ==
  /\ awaited = {}
  /\ \/ /\ failuresLeft > 0
        /\ countFailure(TRUE)
        /\ UNCHANGED <<queue, inflight, tasks, awaited>>
     \/ \E batch \in batchesOf(BagToSet(queue)) :
          LET chains == startedChains(batch, 1, {})
              received_ == {batch[i] : i \in 1 .. Len(batch)}
          IN /\ queue' = queue (-) SetToBag(received_)
             /\ inflight' = inflight \cup received_
             /\ tasks' = [m \in DOMAIN tasks \cup chains.started |->
                            IF m \in chains.started THEN newTask(m) ELSE tasks[m]]
             /\ awaited' = IF chains.thrown THEN {} ELSE chains.started
             /\ UNCHANGED failuresLeft
  /\ UNCHANGED <<deciderVars, commandVars, tables, projectionLag, projectedEvents>>

\* applyProjectionOps: the ddbSend of the next op of a message answered
ApplyProjectionOp(message) ==
  /\ message \in DOMAIN tasks
  /\ tasks[message].pc = "apply"
  /\ \E fails \in outcomes :
       LET task == tasks[message]
           rest == Tail(task.ops)
       IN /\ countFailure(fails)
          /\ IF fails THEN
               /\ settle(message, taskAfterFailure(task))
               /\ UNCHANGED <<tables, projectedEvents>>
             ELSE
               /\ tables' = applyProjectionOp(tables, Head(task.ops))
               /\ settle(message, [task EXCEPT !.ops = rest,
                                               !.opsApplied = @ + 1,
                                               !.pc = IF rest = <<>> THEN "lag" ELSE "apply"])
               /\ projectedEvents' = IF rest = <<>>
                                     THEN Append(projectedEvents, task.recordedEvent)
                                     ELSE projectedEvents
  /\ UNCHANGED <<deciderVars, commandVars, queue, inflight, projectionLag>>

\* upsertProjectionLag answered
UpsertProjectionLag(message) ==
  /\ message \in DOMAIN tasks
  /\ tasks[message].pc = "lag"
  /\ \E fails \in outcomes :
       LET task == tasks[message]
       IN /\ countFailure(fails)
          /\ IF fails THEN
               /\ settle(message, taskAfterFailure(task))
               /\ UNCHANGED projectionLag
             ELSE
               /\ projectionLag' = projectionLagOf(task.recordedEvent)
               /\ settle(message, [task EXCEPT !.pc = "delete", !.lagUpserted = TRUE])
  /\ UNCHANGED <<deciderVars, commandVars, queue, inflight, tables, projectedEvents>>

\* deleteMessage(message.ReceiptHandle) answered
DeleteMessage(message) ==
  /\ message \in DOMAIN tasks
  /\ tasks[message].pc = "delete"
  /\ \E fails \in outcomes :
       /\ countFailure(fails)
       /\ settle(message, taskAfterFailure(tasks[message]))
       /\ inflight' = IF fails THEN inflight ELSE inflight \ {message}
  /\ UNCHANGED <<deciderVars, commandVars, queue, tables, projectionLag, projectedEvents>>

\* the visibility timeout of a message that was received and not deleted ran
\* out: the queue delivers it again (the timeout outlasts the message's chain)
VisibilityTimeout(message) ==
  /\ message \in inflight
  /\ message \notin DOMAIN tasks
  /\ inflight' = inflight \ {message}
  /\ queue' = queue (+) SetToBag({message})
  /\ UNCHANGED <<deciderVars, commandVars, tasks, awaited, tables, projectionLag, failuresLeft,
                 projectedEvents>>

\* the events of a resource stream, recorded one time unit apart
SeedReservationCancelled ==
  [recordEvent(<<0, 2>>, ResourceId, "resource", 3, "ResourceReservationCancelled",
               [resourceId |-> ResourceId, reservationId |-> 0, cancelledAtUtc |-> NowUtc + 1],
               [command |-> "CancelReservationInResource", actorUserId |-> User1.sub])
   EXCEPT !.occurredAtUtc = NowUtc + 1]
SeedStream == <<SeedResourceCreated, SeedReservationAdded, SeedReservationCancelled>>

RECURSIVE storeOf(_)
\* the bucket after the events were appended in order
storeOf(events) ==
  IF events = <<>> THEN <<>>
  ELSE LET last == events[Len(events)]
       IN appendEvent(storeOf(SubSeq(events, 1, Len(events) - 1)), last, last.version - 1).bucket

\* the worker starts with the published events of a stream on the queue, and
\* possibly a message of another sender; no command arrives meanwhile
InitWorkerWith(lengths, failures) ==
  /\ requestBudget = 0
  /\ config \in {cfg \in Configs : /\ ~cfg.emitConcurrencyConflictUnresolvedEvent
                                    /\ cfg.versionConflictMaxRetries = MaxRetries
                                    /\ cfg.snapshotEveryDefault = 500
                                    /\ cfg.snapshotByStreamType.resource = 0}
  /\ faults = {}
  /\ \E n \in lengths, foreign \in {{}, {EmptyBody}, {MalformedBody}} :
       /\ bucket = storeOf(SubSeq(SeedStream, 1, n))
       /\ queue = SetToBag({SeedStream[i] : i \in 1 .. n} \cup foreign)
  /\ idempotencyTable = [k \in IdempotencyKeys |-> null]
  /\ procs = [p \in Procs |-> IdleProc]
  /\ usedResourceIds = {ResourceId}
  /\ received = 0
  /\ responses = {}
  /\ appendCalls = {}
  /\ inflight = {}
  /\ tasks = <<>>
  /\ awaited = {}
  /\ tables = EmptyTables
  /\ projectionLag = null
  /\ failuresLeft = failures
  /\ projectedEvents = <<>>
  /\ aggregates = NoAggregates
  /\ decided = null

InitWorker == InitWorkerWith(1 .. Len(SeedStream), MaxFailures)

NextWorker ==
  \/ ReceiveMessages
  \/ \E message \in inflight : ApplyProjectionOp(message)
  \/ \E message \in inflight : UpsertProjectionLag(message)
  \/ \E message \in inflight : DeleteMessage(message)
  \/ \E message \in inflight : VisibilityTimeout(message)

SpecWorker == InitWorker /\ [][NextWorker]_vars

\* the bodies a queue of the model can hold
Bodies == {SeedStream[i] : i \in 1 .. Len(SeedStream)} \cup {EmptyBody, MalformedBody}

\* Every call of a chain is answered, and a visibility timeout runs out. The
\* loop receives again whenever its batch settled, and the queue hands out
\* every message that keeps being visible: none is passed over for ever, and
\* none is for ever received behind a body that ends the batch.
WorkerFairness ==
  /\ WF_vars(\E message \in Bodies : ApplyProjectionOp(message))
  /\ WF_vars(\E message \in Bodies : UpsertProjectionLag(message))
  /\ WF_vars(\E message \in Bodies : DeleteMessage(message))
  /\ \A message \in Bodies :
       /\ WF_vars(VisibilityTimeout(message))
       /\ SF_vars(ReceiveMessages /\ message \in inflight' \ inflight
                                   /\ (message \in DOMAIN tasks' \/ message \in {EmptyBody, MalformedBody}))

\* the whole stream is on the queue and one call fails
InitWorkerLive == InitWorkerWith({Len(SeedStream)}, MaxFailuresLive)
SpecWorkerLive == InitWorkerLive /\ [][NextWorker]_vars /\ WorkerFairness

\* ------------------------------------------------------------------------
\* The deciders on the states of one resource and one user
\* ------------------------------------------------------------------------
User2 == [sub |-> "user2", role |-> "user"]
Actors == {Admin, User1, User2}
Times == 0 .. MaxTime
Emails == {"ana@example.com", "bob@example.com"}

\* the commands the builders hand to decideResource for a resource in this state
ResourceCommands(state) ==
  LET reservationId == IF state = null THEN 0 ELSE Len(state.reservations) IN
  {buildCreateResourceCommand(FALSE, ResourceId, "SalaA", "Piso 1", a.sub, a.role).value :
     a \in Actors}
  \cup {buildUpdateResourceMetadataCommand(ResourceId, "Piso 2", a.sub, a.role) : a \in Actors}
  \cup {buildCreateReservationCommand(ResourceId, reservationId, fromUtc, toUtc, a.sub, TRUE,
                                      a.sub, a.role, NowUtc).value :
          fromUtc \in Times, toUtc \in Times, a \in Actors \ {Admin}}
  \cup {buildCancelReservationCommand(ResourceId, id, a.sub, a.role, nowUtc) :
          id \in 0 .. MaxReservationId, a \in Actors, nowUtc \in {NowUtc, NowUtc + 1}}

UserCommands ==
  {[type |-> type, userId |-> "u1", email |-> email, passwordHash |-> "hash1"] :
     type \in {"BootstrapAdmin", "RegisterUser"}, email \in Emails}
  \cup {[type |-> "LoginUser", userId |-> "u1", email |-> email] : email \in Emails}

\* what the stream holds after the decision: the accepted event is appended
afterResourceDecision(aggregate, decision) ==
  IF decision.kind = "accepted"
  THEN [state |-> foldResource(aggregate.state, decision.event),
        version |-> aggregate.version + 1]
  ELSE aggregate

\* the same for the user stream
afterUserDecision(aggregate, decision) ==
  IF decision.kind = "accepted"
  THEN [state |-> foldUser(aggregate.state, decision.event),
        version |-> aggregate.version + 1]
  ELSE aggregate

\* the handler passes the admin role whatever the role of the actor
DecideResourceCommandAsAdmin ==
  /\ aggregates.resource.version < MaxEvents
  /\ \E command \in ResourceCommands(aggregates.resource.state) :
       LET state == aggregates.resource.state
           decision == decideResource(state, [command EXCEPT !.actorRole = "admin"])
       IN /\ decided' = [aggregate |-> "resource", state |-> state, command |-> command,
                         decision |-> decision]
          /\ aggregates' = [aggregates EXCEPT
                              !.resource = afterResourceDecision(@, decision)]
  /\ UNCHANGED <<commandVars, queue, workerVars>>

\* applyResourceCommand: decideResource on the rehydrated state, and the
\* accepted event appended to the stream
DecideResourceCommand ==
  /\ aggregates.resource.version < MaxEvents
  /\ \E command \in ResourceCommands(aggregates.resource.state) :
       LET state == aggregates.resource.state
           decision == decideResource(state, command)
       IN /\ decided' = [aggregate |-> "resource", state |-> state, command |-> command,
                         decision |-> decision]
          /\ aggregates' = [aggregates EXCEPT
                              !.resource = afterResourceDecision(@, decision)]
  /\ UNCHANGED <<commandVars, queue, workerVars>>

\* decideUser called with a state of the user stream (the handlers of
\* BootstrapAdmin and RegisterUser pass null, that of LoginUser the rehydrated
\* state) and the accepted event folded by foldUser
DecideUserCommand ==
  /\ aggregates.user.version < MaxUserEvents
  /\ \E command \in UserCommands :
       LET state == aggregates.user.state
           decision == decideUser(state, command)
       IN /\ decided' = [aggregate |-> "user", state |-> state, command |-> command,
                         decision |-> decision]
          /\ aggregates' = [aggregates EXCEPT !.user = afterUserDecision(@, decision)]
  /\ UNCHANGED <<commandVars, queue, workerVars>>

\* no request is in flight and nothing is stored: only the deciders run
InitDecide ==
  /\ InitWith({cfg \in Configs : /\ ~cfg.emitConcurrencyConflictUnresolvedEvent
                                 /\ cfg.versionConflictMaxRetries = MaxRetries
                                 /\ cfg.snapshotEveryDefault = 500
                                 /\ cfg.snapshotByStreamType.resource = 0},
              {{}}, 0)
  /\ bucket = <<>>

NextDecide == DecideResourceCommand \/ DecideUserCommand

SpecDecide == InitDecide /\ [][NextDecide]_vars

\* ------------------------------------------------------------------------
\* User commands: POST /commands/user (application/command-dispatchers.ts)
\* ------------------------------------------------------------------------
\* bcrypt.hashSync and bcrypt.compareSync: the hash of one password matches no other
hashSync(password) == <<"bcrypt", password>>
compareSync(password, passwordHash) == passwordHash = hashSync(password)

AdminBootstrapKey == "bootstrap-local-key"

buildBootstrapAdminCommand(email, password, actorBootstrapKey, emailExists, userId) ==
  IF actorBootstrapKey # AdminBootstrapKey
  THEN [kind |-> "error", error |-> domainError("BOOTSTRAP_FORBIDDEN", <<>>)]
  ELSE IF emailExists
  THEN [kind |-> "error", error |-> domainError("EMAIL_ALREADY_EXISTS", [email |-> email])]
  ELSE [kind |-> ok, value |-> [type |-> "BootstrapAdmin", userId |-> userId, email |-> email,
                                passwordHash |-> hashSync(password)]]

buildRegisterUserCommand(email, password, emailExists, userId) ==
  IF emailExists
  THEN [kind |-> "error", error |-> domainError("EMAIL_ALREADY_EXISTS", [email |-> email])]
  ELSE [kind |-> ok, value |-> [type |-> "RegisterUser", userId |-> userId, email |-> email,
                                passwordHash |-> hashSync(password)]]

buildLoginUserCommand(state, userId, email, password) ==
  IF state = null \/ ~compareSync(password, state.passwordHash)
  THEN [kind |-> "error", error |-> domainError("INVALID_CREDENTIALS", <<>>)]
  ELSE [kind |-> ok, value |-> [type |-> "LoginUser", userId |-> userId, email |-> email]]

invalidCredentialsResponse ==
  response(401, [error |-> [code |-> "INVALID_CREDENTIALS", meta |-> <<>>]])

\* signToken: the claims the token carries
signToken(sub, role, email) == [sub |-> sub, role |-> role, email |-> email]

\* getUserByEmail: a Scan with FilterExpression email = :email and Limit 1. The
\* limit counts the items evaluated, not the items matched: the answer is the
\* one item the scan evaluates if it has the email, and null otherwise
getUserByEmail(users, email) ==
  IF DOMAIN users = {} THEN {null}
  ELSE {IF users[id].email = email THEN users[id] ELSE null : id \in DOMAIN users}

RECURSIVE foldUserTail(_, _, _)
\* tail.reduce of loadStateFromSnapshotAndTail with fold = foldUser
foldUserTail(acc, tail, i) ==
  IF i > Len(tail) THEN acc
  ELSE foldUserTail(foldUser(acc, [type |-> tail[i].type, payload |-> tail[i].payload]),
                    tail, i + 1)

\* the user registered before the behaviour starts, and the ids uuidv7() gives
\* to the users the requests create
UserEmail == "ana@example.com"
UserPassword == "secret"
UserIds == <<"u1", "u2">>
SeedUserRegistered ==
  recordEvent(<<0, 1>>, "u0", "user", 1, "UserRegistered",
              [userId |-> "u0", email |-> UserEmail, passwordHash |-> hashSync(UserPassword),
               role |-> "user"],
              [command |-> "RegisterUser"])

\* the validated envelopes the clients send, with the x-admin-bootstrap-key header
UserRequests ==
  {[bootstrapKey |-> IF type = "BootstrapAdmin" THEN AdminBootstrapKey ELSE "",
    input |-> [type |-> type, payload |-> [email |-> UserEmail, password |-> UserPassword]]] :
     type \in {"BootstrapAdmin", "RegisterUser", "LoginUser"}}

\* POST /commands/user up to the answer of loadIdempotency; the new branch
\* calls the handler, which runs to its first await, getUserByEmail
RunIdempotentUser(p) ==
  /\ procs[p].pc = "idle"
  /\ \A q \in Procs : procs[q].pc = "idle" => p <= q
  /\ received < requestBudget
  /\ \E i \in 1 .. Len(KeyNames), request \in UserRequests :
       LET idempotencyKey == KeyNames[i]
           content == [path |-> "/commands/user", body |-> [command |-> request.input]]
           decision == idempotencyDecision(idempotencyTable[idempotencyKey], idempotencyKey,
                                           content)
           req == received + 1
       IN /\ \A j \in 1 .. (i - 1) : KeyNames[j] \in usedKeys
          /\ received' = req
          /\ IF decision.kind = "replay" THEN
               /\ responses' = responses \cup
                    {responseRecord(req, idempotencyKey, hashContent(content), "replay", "none",
                                    response(decision.record.statusCode,
                                             decision.record.responseBody))}
               /\ UNCHANGED procs
             ELSE IF decision.kind = "mismatch" THEN
               /\ responses' = responses \cup
                    {responseRecord(req, idempotencyKey, hashContent(content), "mismatch",
                                    "none", domainErrorResponse(decision.error))}
               /\ UNCHANGED procs
             ELSE
               /\ procs' = [procs EXCEPT ![p] =
                    [IdleProc EXCEPT !.pc = "getUserByEmail", !.req = req,
                                     !.idempotencyKey = idempotencyKey,
                                     !.contentHash = decision.contentHash,
                                     !.auth = [bootstrapKey |-> request.bootstrapKey],
                                     !.input = request.input]]
               /\ UNCHANGED responses
  /\ UNCHANGED <<deciderVars, workerVars, requestBudget, config, faults, bucket, queue,
                 idempotencyTable, usedResourceIds, appendCalls>>

\* the handler once getUserByEmail answered. BootstrapAdmin and RegisterUser:
\* the builder, decideUser(null, command) and the recordEvent of applyUserEvent
\* at expectedVersion 0, on the stream of a fresh user id. LoginUser: 401 when
\* the projection has no user with the email, the load of the stream otherwise
GetUserByEmail(p) ==
  LET proc == procs[p]
      payload == proc.input.payload
      userId == UserIds[proc.req]
  IN
  /\ proc.pc = "getUserByEmail"
  /\ \E existing \in getUserByEmail(tables.users, payload.email) :
       IF proc.input.type = "LoginUser" THEN
         procs' = [procs EXCEPT ![p] =
           IF existing = null
           THEN [proc EXCEPT !.pc = "save", !.result = invalidCredentialsResponse]
           ELSE [proc EXCEPT !.pc = "loadUserSnapshot",
                             !.projection = [userId |-> existing.userId,
                                             role |-> existing.role]]]
       ELSE
         LET built == IF proc.input.type = "BootstrapAdmin"
                      THEN buildBootstrapAdminCommand(payload.email, payload.password,
                                                      proc.auth.bootstrapKey, existing # null,
                                                      userId)
                      ELSE buildRegisterUserCommand(payload.email, payload.password,
                                                    existing # null, userId)
             decision == decideUser(null, built.value)
         IN procs' = [procs EXCEPT ![p] =
              IF built.kind # ok
              THEN [proc EXCEPT !.pc = "save", !.result = domainErrorResponse(built.error)]
              ELSE IF decision.kind = "rejected"
              THEN [proc EXCEPT !.pc = "save", !.result = domainErrorResponse(decision.error)]
              ELSE [proc EXCEPT
                      !.pc = "appendUser", !.uuids = 2, !.command = built.value,
                      !.lastEventVersion = 0,
                      !.projection = [userId |-> userId,
                                      role |-> IF proc.input.type = "BootstrapAdmin"
                                               THEN "admin" ELSE "user"],
                      !.recordedEvent =
                        recordEvent(<<proc.req, 1>>, decision.event.payload.userId, "user",
                                    0 + 1, decision.event.type, decision.event.payload,
                                    [command |-> proc.input.type])]]
  /\ UNCHANGED <<deciderVars, workerVars, requestBudget, config, faults, bucket, queue,
                 idempotencyTable, usedResourceIds, received, responses, appendCalls>>

\* LoginUser, loadStateFromSnapshotAndTail: getLatestSnapshot of the user stream
LoadUserSnapshot(p) ==
  /\ procs[p].pc = "loadUserSnapshot"
  /\ procs' = [procs EXCEPT ![p].pc = "loadUserTail",
                            ![p].snapshot = getLatestSnapshot(bucket, "user",
                                                              procs[p].projection.userId)]
  /\ UNCHANGED <<deciderVars, workerVars, requestBudget, config, faults, bucket, queue,
                 idempotencyTable, usedResourceIds, received, responses, appendCalls>>

\* LoginUser, loadStateFromSnapshotAndTail: the tail and the fold, and the
\* synchronous code up to the appendEvent call of applyUserEvent:
\* buildLoginUserCommand, decideUser on the rehydrated state and recordEvent
LoadUserTail(p) ==
  LET proc == procs[p]
      payload == proc.input.payload
      userId == proc.projection.userId
      fromVersion == IF proc.snapshot # null THEN proc.snapshot.lastEventVersion + 1 ELSE 1
  IN
  /\ proc.pc = "loadUserTail"
  /\ \E first, second \in listedViews(bucket, "user", userId, "listing" \in faults) :
       LET loaded == loadStreamWithGapRetry(first, second, "user", userId, fromVersion)
           tail == loaded.events
           state == foldUserTail(IF proc.snapshot # null THEN proc.snapshot.state ELSE null,
                                 tail, 1)
           lastEventVersion == IF Len(tail) > 0 THEN tail[Len(tail)].version
                               ELSE IF proc.snapshot # null
                               THEN proc.snapshot.lastEventVersion ELSE 0
           built == buildLoginUserCommand(state, userId, payload.email, payload.password)
           decision == decideUser(state, built.value)
       IN IF loaded.result # ok THEN
            Respond(p, "none", internalError(messageOf(STREAM_GAP_DETECTED)))
          ELSE
            /\ UNCHANGED responses
            /\ procs' = [procs EXCEPT ![p] =
                 IF built.kind # ok
                 THEN [proc EXCEPT !.pc = "save", !.loads = loaded.loads,
                                   !.result = domainErrorResponse(built.error)]
                 ELSE IF decision.kind = "rejected"
                 THEN [proc EXCEPT !.pc = "save", !.loads = loaded.loads,
                                   !.result = domainErrorResponse(decision.error)]
                 ELSE [proc EXCEPT
                         !.pc = "appendUser", !.uuids = 1, !.command = built.value,
                         !.state = state, !.lastEventVersion = lastEventVersion,
                         !.loads = loaded.loads,
                         !.recordedEvent =
                           recordEvent(<<proc.req, 1>>, decision.event.payload.userId, "user",
                                       lastEventVersion + 1, decision.event.type,
                                       decision.event.payload,
                                       [command |-> "LoginUser"])]]
  /\ UNCHANGED <<deciderVars, workerVars, requestBudget, config, faults, bucket, queue,
                 idempotencyTable, usedResourceIds, received, appendCalls>>

\* applyUserEvent: appendEvent reaches the store. The handlers call
\* applyUserEvent outside withVersionConflictRetries and without a catch: a
\* VersionConflictError rejects the handler's promise and reaches safe
AppendUserEvent(p) ==
  LET proc == procs[p]
      put == appendEvent(bucket, proc.recordedEvent, proc.lastEventVersion)
  IN
  /\ proc.pc = "appendUser"
  /\ bucket' = put.bucket
  /\ appendCalls' = appendCalls \cup
       {[eventId |-> proc.recordedEvent.eventId, version |-> proc.recordedEvent.version,
         result |-> put.result]}
  /\ IF put.result = ok
     THEN /\ procs' = [procs EXCEPT ![p].pc = "publishUser"]
          /\ UNCHANGED responses
     ELSE Respond(p, "none", internalError(messageOf(VERSION_CONFLICT)))
  /\ UNCHANGED <<deciderVars, workerVars, requestBudget, config, faults, queue,
                 idempotencyTable, usedResourceIds, received>>

\* the success closure of the user handlers: the token of the user
userSuccess(proc) ==
  response(IF proc.input.type = "LoginUser" THEN 200 ELSE 201,
           [token |-> signToken(proc.recordedEvent.payload.userId, proc.projection.role,
                                proc.recordedEvent.payload.email)])

\* enqueueRecordedEvent after the append; when maybeWriteSnapshot has nothing
\* to write the success response follows without another store call
PublishUser(p) ==
  LET proc == procs[p] IN
  /\ proc.pc = "publishUser"
  /\ \E sendFails \in IF "publish" \in faults THEN BOOLEAN ELSE {FALSE} :
       IF sendFails THEN
         /\ UNCHANGED queue
         /\ Respond(p, "none", internalError(messageOf("SendMessage failed")))
       ELSE
         /\ queue' = queue (+) SetToBag({proc.recordedEvent})
         /\ procs' = [procs EXCEPT ![p] =
              IF shouldSnapshot(config, "user", proc.lastEventVersion + 1)
              THEN [proc EXCEPT !.pc = "snapshotUser"]
              ELSE [proc EXCEPT !.pc = "save", !.result = userSuccess(proc)]]
         /\ UNCHANGED responses
  /\ UNCHANGED <<deciderVars, workerVars, requestBudget, config, faults, bucket,
                 idempotencyTable, usedResourceIds, received, appendCalls>>

\* the putSnapshot of maybeWriteSnapshot on the user stream and the success response
WriteUserSnapshot(p) ==
  LET proc == procs[p]
      event == [type |-> proc.recordedEvent.type, payload |-> proc.recordedEvent.payload]
  IN
  /\ proc.pc = "snapshotUser"
  /\ \E putFails \in IF "snapshot" \in faults THEN BOOLEAN ELSE {FALSE} :
       IF putFails THEN
         /\ UNCHANGED bucket
         /\ Respond(p, "none", internalError(messageOf("PutObject failed")))
       ELSE
         /\ bucket' = maybeWriteSnapshot(bucket, config, "user", proc.recordedEvent.streamId,
                                         proc.lastEventVersion + 1, foldUser(proc.state, event))
         /\ procs' = [procs EXCEPT ![p].pc = "save", ![p].result = userSuccess(proc)]
         /\ UNCHANGED responses
  /\ UNCHANGED <<deciderVars, workerVars, requestBudget, config, faults, queue,
                 idempotencyTable, usedResourceIds, received, appendCalls>>

\* The deployment snapshots the user streams every SnapshotEvery events. A user
\* may have registered before: the stream is stored, and the projection worker
\* has applied the event to users_projection or has not yet.
InitUsers ==
  /\ requestBudget = MaxRequests
  /\ config \in {[snapshotEveryDefault |-> 500,
                  snapshotByStreamType |-> [user |-> SnapshotEvery],
                  versionConflictMaxRetries |-> MaxRetries,
                  emitConcurrencyConflictUnresolvedEvent |-> FALSE]}
  /\ faults = {}
  /\ \E registered, projected \in BOOLEAN :
       /\ projected => registered
       /\ bucket = IF registered
                   THEN appendEvent(<<>>, SeedUserRegistered, 0).bucket ELSE <<>>
       /\ queue = IF registered /\ ~projected
                  THEN SetToBag({SeedUserRegistered}) ELSE EmptyBag
       /\ tables = IF projected
                   THEN applyProjectionOps(EmptyTables, project(SeedUserRegistered))
                   ELSE EmptyTables
  /\ idempotencyTable = [k \in IdempotencyKeys |-> null]
  /\ procs = [p \in Procs |-> IdleProc]
  /\ usedResourceIds = {}
  /\ received = 0
  /\ responses = {}
  /\ appendCalls = {[eventId |-> bucket[k].eventId, version |-> bucket[k].version,
                     result |-> ok] : k \in DOMAIN bucket}
  /\ inflight = {}
  /\ awaited = {}
  /\ tasks = <<>>
  /\ projectionLag = null
  /\ failuresLeft = 0
  /\ projectedEvents = <<>>
  /\ aggregates = NoAggregates
  /\ decided = null

NextUsers ==
  \/ \E p \in Procs : RunIdempotentUser(p)
  \/ \E p \in Procs : GetUserByEmail(p)
  \/ \E p \in Procs : LoadUserSnapshot(p)
  \/ \E p \in Procs : LoadUserTail(p)
  \/ \E p \in Procs : AppendUserEvent(p)
  \/ \E p \in Procs : PublishUser(p)
  \/ \E p \in Procs : WriteUserSnapshot(p)
  \/ \E p \in Procs : SaveIdempotency(p)

SpecUsers == InitUsers /\ [][NextUsers]_vars

\* ------------------------------------------------------------------------
\* Loads of a stream whose listing can be incomplete (infra/event-store.ts)
\* ------------------------------------------------------------------------
\* a resource created and then updated: the event at version i
streamEvent(i) ==
  IF i = 1 THEN SeedResourceCreated
  ELSE recordEvent(<<i, 1>>, ResourceId, "resource", i, "ResourceMetadataUpdated",
                   [resourceId |-> ResourceId, details |-> "Piso 2"],
                   [command |-> "UpdateResourceMetadata", actorUserId |-> Admin.sub])

\* loadAndValidate of loadStreamWithGapRetry on one answer of the listing, from
\* the version after a snapshot or from 1
LoadAndValidate ==
  /\ \E view \in listedViews(bucket, "resource", ResourceId, TRUE),
        fromVersionInclusive \in 1 .. (Cardinality(DOMAIN bucket) + 1) :
       decided' = [fromVersionInclusive |-> fromVersionInclusive,
                   load |-> loadAndValidate(view, "resource", ResourceId,
                                            fromVersionInclusive)]
  /\ UNCHANGED <<commandVars, queue, workerVars, aggregates>>

\* a stream of up to MaxStreamLength events is stored, and nothing else runs
InitLoad ==
  /\ requestBudget = 0
  /\ config \in {cfg \in Configs : /\ cfg.versionConflictMaxRetries = MaxRetries
                                    /\ ~cfg.emitConcurrencyConflictUnresolvedEvent
                                    /\ cfg.snapshotEveryDefault = 500
                                    /\ cfg.snapshotByStreamType.resource = 0}
  /\ faults = {"listing"}
  /\ \E n \in 0 .. MaxStreamLength : bucket = storeOf([i \in 1 .. n |-> streamEvent(i)])
  /\ queue = EmptyBag
  /\ idempotencyTable = [k \in IdempotencyKeys |-> null]
  /\ procs = [p \in Procs |-> IdleProc]
  /\ usedResourceIds = {bucket[k].streamId : k \in DOMAIN bucket}
  /\ received = 0
  /\ responses = {}
  /\ appendCalls = {[eventId |-> bucket[k].eventId, version |-> bucket[k].version,
                     result |-> ok] : k \in DOMAIN bucket}
  /\ inflight = {}
  /\ tasks = <<>>
  /\ awaited = {}
  /\ tables = EmptyTables
  /\ projectionLag = null
  /\ failuresLeft = 0
  /\ projectedEvents = <<>>
  /\ aggregates = NoAggregates
  /\ decided = null

SpecLoad == InitLoad /\ [][LoadAndValidate]_vars

\* The continuation of the request in slot p: the store, queue and table
\* calls answer and the event loop runs the callback that waits for them.
Continue(p) ==
  \/ ExecuteResourceCommand(p)
  \/ GetLatestSnapshot(p)
  \/ LoadTail(p)
  \/ AppendEvent(p)
  \/ Publish(p)
  \/ MaybeWriteSnapshot(p)
  \/ SaveIdempotency(p)

\* ENABLED <<Continue(p)>>_vars written out: a request in flight can always
\* take its next step, except a CreateResource whose lookup cannot answer yet
\* (the guard of ExecuteResourceCommand)
canContinue(p) ==
  /\ procs[p].pc # "idle"
  /\ procs[p].pc = "action" /\ procs[p].input.type = "CreateResource" =>
       \E nameTaken \in resourceNameTakenAnswers(bucket, procs[p].input.payload.name) :
         ResourceId \in usedResourceIds => nameTaken

\* WF_vars(Continue(p)), with its ENABLED as canContinue(p): the event loop
\* does not leave a callback whose call has answered waiting forever
Fairness(p) == []<>(~canContinue(p)) \/ []<><<Continue(p)>>_vars

SpecLive == Init /\ [][Next]_vars /\ \A p \in Procs : Fairness(p)

\* ------------------------------------------------------------------------
\* Properties
\* ------------------------------------------------------------------------
eventKeys == listKeysByPrefix(bucket, <<"resource", ResourceId>>)
snapshotKeys == listKeysByPrefix(bucket, <<"snapshots", "resource", ResourceId>>)
okCalls == {c \in appendCalls : c.result = ok}
conflictCalls == {c \in appendCalls : c.result = VERSION_CONFLICT}

\* C1: the versions of the events stored for the stream are exactly 1..K for
\* some K >= 0: none is missing, none is stored under two keys, and each
\* event carries the version of its key.
C1_VersionsContiguous ==
  /\ {parseVersion(k) : k \in eventKeys} = 1 .. Cardinality(eventKeys)
  /\ \A k \in eventKeys : bucket[k].version = parseVersion(k)

\* a retry after a lost race and a telemetry append both happened
C1_Witness ==
  /\ conflictCalls # {}
  /\ \E k \in eventKeys : bucket[k].type = "ConcurrencyConflictUnresolved"
  /\ Cardinality(eventKeys) >= 3

\* C2: of the appendEvent calls for one target version exactly one succeeds
\* and its event is the one stored; every other call fails with
\* VERSION_CONFLICT and stores nothing.
C2_OneWinnerPerVersion ==
  \A v \in {c.version : c \in appendCalls} :
    LET calls == {c \in appendCalls : c.version = v}
        winners == {c \in calls : c.result = ok}
        key == keyOf("resource", ResourceId, v)
    IN /\ Cardinality(winners) = 1
       /\ \A c \in calls \ winners : c.result = VERSION_CONFLICT
       /\ key \in DOMAIN bucket
       /\ \A c \in winners : bucket[key].eventId = c.eventId

\* two writers raced for one version
C2_Witness ==
  \E c, d \in appendCalls :
    c.version = d.version /\ c.eventId # d.eventId /\ c.result = ok /\ d.result = VERSION_CONFLICT

\* the active reservations of the state folded from the stored stream
activeReservations ==
  LET state == buildResourceState(loadStream(bucket, "resource", ResourceId).events)
  IN IF state = null THEN {}
     ELSE {state.reservations[i] :
             i \in {j \in 1 .. Len(state.reservations) : state.reservations[j].status = "active"}}

\* C3: in every reachable state no two active reservations of the folded
\* resource state have intersecting half-open intervals [fromUtc, toUtc),
\* and no reservation id is active twice.
C3_NoOverlap ==
  \A a, b \in activeReservations :
    a # b => /\ a.reservationId # b.reservationId
             /\ ~(a.fromUtc < b.toUtc /\ b.fromUtc < a.toUtc)

\* two adjacent reservations are active, and a create that lost the race for
\* a version was retried on the reloaded state and rejected for overlap
C3_Witness ==
  /\ Cardinality(activeReservations) >= 2
  /\ conflictCalls # {}
  /\ \E r \in responses :
       r.statusCode = 409 /\ r.body = domainError("RESERVATION_OVERLAP", [resourceId |-> ResourceId])

\* the invocations of the gate so far: request, key and content hash
invocations ==
  {[req |-> r.req, idempotencyKey |-> r.idempotencyKey, contentHash |-> r.contentHash] :
     r \in responses}
  \cup {[req |-> procs[q].req, idempotencyKey |-> procs[q].idempotencyKey,
         contentHash |-> procs[q].contentHash] : q \in {x \in Procs : procs[x].pc # "idle"}}

\* the keys for which some saveIdempotency call failed on the table itself
keysWithFailedSave == {r.idempotencyKey : r \in {x \in responses : x.saved = "error"}}

\* C4: over all invocations of the gate with one key and the same content,
\* sequential or concurrent, at most one event is appended to the event
\* store (stated for the keys whose saves reached the table).
C4_AtMostOneEventPerKey ==
  \A i, j \in invocations :
    (/\ i.idempotencyKey = j.idempotencyKey
     /\ i.contentHash = j.contentHash
     /\ i.idempotencyKey \notin keysWithFailedSave) =>
      \A c, d \in okCalls : (c.eventId[1] = i.req /\ d.eventId[1] = j.req) => c = d

\* the key and content hash of the request a step receives
arrived ==
  {[idempotencyKey |-> r.idempotencyKey, contentHash |-> r.contentHash] :
     r \in {x \in responses' : x.req = received'}}
  \cup {[idempotencyKey |-> procs'[q].idempotencyKey, contentHash |-> procs'[q].contentHash] :
          q \in {x \in Procs : procs'[x].req = received'}}

\* C5: a request that arrives with a key whose record is stored with the
\* same content hash is answered with exactly the stored statusCode and
\* responseBody; the command is not run (no slot starts it), and the event
\* store, the snapshots, the queue and the idempotency table are unchanged.
C5_ReplayReturnsStored ==
  [][received' # received =>
       \A a \in arrived :
         LET existing == idempotencyTable[a.idempotencyKey] IN
         (existing # null /\ existing.contentHash = a.contentHash) =>
           /\ \E r \in responses' \ responses :
                /\ r.req = received'
                /\ r.statusCode = existing.statusCode
                /\ r.body = existing.responseBody
           /\ bucket' = bucket
           /\ queue' = queue
           /\ procs' = procs
           /\ idempotencyTable' = idempotencyTable
           /\ appendCalls' = appendCalls]_vars

\* a successful mutation was repeated with its key and body and answered from the record
C5_Witness ==
  \E r \in responses :
    /\ r.kind = "replay"
    /\ r.statusCode \in {200, 201}
    /\ idempotencyTable[r.idempotencyKey] # null
    /\ \E c \in okCalls : c.eventId[1] > 0

\* C6: all responses returned for one idempotency key with the same content
\* carry the same (statusCode, responseBody), also when the invocations ran
\* concurrently (stated for the keys whose saves reached the table).
C6_SameResponsePerKey ==
  \A r, s \in responses :
    (/\ r.idempotencyKey = s.idempotencyKey
     /\ r.contentHash = s.contentHash
     /\ r.idempotencyKey \notin keysWithFailedSave) =>
      (r.statusCode = s.statusCode /\ r.body = s.body)

\* C7: a request that arrives with a key whose stored record has another
\* content hash is answered 409 IDEMPOTENCY_HASH_MISMATCH; the command is not
\* run, and the event store, the queue and the stored record are unchanged.
C7_MismatchRejected ==
  [][received' # received =>
       \A a \in arrived :
         LET existing == idempotencyTable[a.idempotencyKey] IN
         (existing # null /\ existing.contentHash # a.contentHash) =>
           /\ \E r \in responses' \ responses :
                /\ r.req = received'
                /\ r.statusCode = 409
                /\ r.body = domainError("IDEMPOTENCY_HASH_MISMATCH",
                                        [idempotencyKey |-> a.idempotencyKey])
           /\ bucket' = bucket
           /\ queue' = queue
           /\ procs' = procs
           /\ idempotencyTable' = idempotencyTable
           /\ appendCalls' = appendCalls]_vars

\* a key with a stored record was reused with another body
C7_Witness ==
  \E r \in responses :
    /\ r.kind = "mismatch"
    /\ idempotencyTable[r.idempotencyKey] # null
    /\ idempotencyTable[r.idempotencyKey].contentHash # r.contentHash

\* C8: a stored idempotency record never changes (so it is written at most
\* once), and a request whose saveIdempotency step ends, whether the save
\* succeeded, found a record or failed, is answered with its own run's response.
C8_RecordWrittenOnce ==
  [][/\ \A k \in IdempotencyKeys :
          idempotencyTable[k] # null => idempotencyTable'[k] = idempotencyTable[k]
     /\ \A p \in Procs :
          (procs[p].pc = "save" /\ procs'[p].pc = "idle") =>
            \E r \in responses' \ responses :
              /\ r.req = procs[p].req
              /\ r.statusCode = procs[p].result.statusCode
              /\ r.body = procs[p].result.body]_vars

\* a save found the record of a concurrent request with the same key, and the
\* request was answered with its own response, not the stored one
C8_Witness ==
  \E r \in responses :
    /\ r.saved = "IDEMPOTENCY_ALREADY_EXISTS"
    /\ idempotencyTable[r.idempotencyKey] # null
    /\ idempotencyTable[r.idempotencyKey].statusCode # r.statusCode

\* C9: after K successful appendEvent calls loadStream returns exactly K
\* events, ascending, with versions 1..K, and every successful append is in it.
C9_LoadReturnsAppended ==
  LET loaded == loadStream(bucket, "resource", ResourceId)
  IN /\ loaded.result = ok
     /\ Len(loaded.events) = Cardinality(okCalls)
     /\ \A i \in 1 .. Len(loaded.events) : loaded.events[i].version = i
     /\ \A c \in okCalls : loaded.events[c.version].eventId = c.eventId

\* the seeded events and two appends of this behaviour succeeded, and one append lost a race
C9_Witness ==
  /\ Cardinality(okCalls) >= 4
  /\ conflictCalls # {}

\* C10: an event stored at a key is never changed or deleted by a later step.
C10_StoredEventsImmutable ==
  [][\A k \in eventKeys : k \in DOMAIN bucket' /\ bucket'[k] = bucket[k]]_vars

\* an append hit an existing version, and a snapshot and a telemetry event were written
C10_Witness ==
  /\ conflictCalls # {}
  /\ snapshotKeys # {}
  /\ \E k \in eventKeys : bucket[k].type = "ConcurrencyConflictUnresolved"

\* ------------------------------------------------------------------------
\* Rehydration: gap retry, snapshots
\* ------------------------------------------------------------------------
contiguousFrom(versions, fromVersion) ==
  \A i \in 1 .. Len(versions) : versions[i] = fromVersion + i - 1

\* the versions a call of loadStreamWithGapRetry can be given as its start
fromVersions == 1 .. (Cardinality(eventKeys) + 1)

\* what the loadStreamWithGapRetry call of each request about to load its
\* tail can return, over every pair of listings the store can answer with
gapRetryOutcomes ==
  {[fromVersion |-> f,
    outcome |-> loadStreamWithGapRetry(first, second, "resource", ResourceId, f)] :
     f \in {IF procs[p].snapshot # null THEN procs[p].snapshot.lastEventVersion + 1 ELSE 1 :
              p \in {q \in Procs : procs[q].pc = "loadTail"}},
     first \in listedViews(bucket, "resource", ResourceId, "listing" \in faults),
     second \in listedViews(bucket, "resource", ResourceId, "listing" \in faults)}

\* C11: loadStreamWithGapRetry loads once when the first load is contiguous
\* from fromInclusive and exactly once more when it is not; it returns the
\* events of the last load when that load is contiguous and fails with
\* STREAM_GAP_DETECTED otherwise; it never loads more than twice and never
\* returns a sequence with a missing version. Checked on every call a request
\* is about to make, and on the loads the requests in flight made.
C11_GapRetryOnce ==
  /\ \A o \in gapRetryOutcomes :
       LET r == o.outcome
           last == r.loads[Len(r.loads)]
       IN /\ Len(r.loads) \in {1, 2}
          /\ Len(r.loads) = 2 <=> ~contiguousFrom(r.loads[1], o.fromVersion)
          /\ r.result = ok <=> contiguousFrom(last, o.fromVersion)
          /\ r.result # ok => r.result = STREAM_GAP_DETECTED /\ r.events = <<>>
          /\ r.result = ok =>
               /\ [i \in 1 .. Len(r.events) |-> r.events[i].version] = last
               /\ \A i \in 1 .. Len(r.events) :
                    r.events[i] = bucket[keyOf("resource", ResourceId, o.fromVersion + i - 1)]
  /\ \A p \in Procs :
       /\ Len(procs[p].loads) <= 2
       /\ procs[p].pc \in {"append", "publish", "snapshot"} /\ ~procs[p].direct =>
            /\ Len(procs[p].loads) >= 1
            /\ \E f \in fromVersions :
                 /\ contiguousFrom(procs[p].loads[Len(procs[p].loads)], f)
                 /\ Len(procs[p].loads) = 2 => ~contiguousFrom(procs[p].loads[1], f)

\* a request whose first load had a gap went on with the events of its retry
C11_Witness ==
  \E p \in Procs : procs[p].pc = "append" /\ Len(procs[p].loads) = 2

\* the events a request appended to the stream
appendedBy(req, calls) ==
  {c \in calls : c.eventId[1] = req /\ c.result = ok}

\* the events a request appended for its command (not the telemetry event)
domainEventsOf(req) ==
  {k \in eventKeys : bucket[k].eventId[1] = req
                     /\ bucket[k].type # "ConcurrencyConflictUnresolved"}

\* C12: a command whose rehydrate ends with a persistent stream gap is
\* answered 500 with error.code = STREAM_GAP_DETECTED and has appended no
\* event. The step taken is the one in which the second load of a request's
\* rehydrate still has a gap and the request is answered.
C12_GapReplies500 ==
  [][\A p \in Procs :
       procs[p].pc = "loadTail" /\ ~procs[p].emitting /\ procs'[p].pc = "idle" =>
         \E r \in responses' \ responses :
           /\ r.req = procs[p].req
           /\ r.statusCode = 500
           /\ r.body.error.code = STREAM_GAP_DETECTED
           /\ appendedBy(r.req, appendCalls') = {}]_vars

\* loadStateFromSnapshotAndTail on the bucket as it is
rehydrate(b) ==
  LET snapshot == getLatestSnapshot(b, "resource", ResourceId)
      fromVersion == IF snapshot # null THEN snapshot.lastEventVersion + 1 ELSE 1
      tail == loadStreamWithGapRetry(b, b, "resource", ResourceId, fromVersion)
  IN stateFromSnapshotAndTail(snapshot, tail.events)

\* C13: in every reachable state of the store, the state and lastEventVersion
\* rehydrated from the latest snapshot and the tail after it are the state
\* folded from all the events from version 1 and the version of the last one.
C13_SnapshotEqualsFullFold ==
  LET all == loadStream(bucket, "resource", ResourceId).events
  IN rehydrate(bucket) = [state |-> buildResourceState(all), lastEventVersion |-> Len(all)]

\* a snapshot is stored, events were appended after it, and the state changed since
C13_Witness ==
  LET snapshot == getLatestSnapshot(bucket, "resource", ResourceId)
  IN /\ snapshot # null
     /\ Cardinality(eventKeys) > snapshot.lastEventVersion
     /\ rehydrate(bucket).state # snapshot.state
     /\ \E c \in appendCalls : c.eventId[1] > 0 /\ c.result = ok

\* ------------------------------------------------------------------------
\* Snapshot policy
\* ------------------------------------------------------------------------
threshold == snapshotThresholdOf(config, "resource")

atThreshold(version) == threshold > 0 /\ version % threshold = 0

\* the request is past the snapshot step of its run: it was answered, or it is
\* about to save its response (the seed events were appended by earlier requests)
pastSnapshotStep(req) ==
  \/ req <= 0
  \/ \E r \in responses : r.req = req
  \/ \E p \in Procs : procs[p].req = req /\ procs[p].pc = "save"

isTelemetry(version) ==
  bucket[keyOf("resource", ResourceId, version)].type = "ConcurrencyConflictUnresolved"

snapshotStoredFor(version) ==
  snapshotKeyOf("resource", ResourceId, version) \in DOMAIN bucket

snapshotsWellFormed ==
  LET all == loadStream(bucket, "resource", ResourceId).events
  IN \A k \in snapshotKeys :
       LET snapshot == bucket[k]
       IN /\ snapshot.snapshotVersion = snapshot.lastEventVersion
          /\ snapshot.snapshotVersion = parseVersion(k)
          /\ keyOf("resource", ResourceId, snapshot.snapshotVersion) \in eventKeys
          /\ snapshot.snapshotVersion <= Len(all)
          /\ snapshot.state = buildResourceState(SubSeq(all, 1, snapshot.snapshotVersion))

\* a putSnapshot for a key that holds a snapshot, with another body, resolves
\* and leaves the bucket as it is
putSnapshotKeepsStored ==
  \A k \in snapshotKeys :
    putSnapshot(bucket, [bucket[k] EXCEPT !.state = null, !.createdAtUtc = NowUtc + 1]) = bucket

\* C15: every stored snapshot has snapshotVersion = lastEventVersion, an event
\* of that version is stored in its stream, and its state is the fold of the
\* events 1..snapshotVersion; no step and no later putSnapshot for its key
\* changes a stored snapshot, and that putSnapshot resolves.
C15_SnapshotsFaithfulAndWriteOnce ==
  /\ [](snapshotsWellFormed /\ putSnapshotKeepsStored)
  /\ [][\A k \in snapshotKeys : k \in DOMAIN bucket' /\ bucket'[k] = bucket[k]]_vars

\* a request wrote a snapshot and events were appended after it
C15_Witness ==
  \E k \in snapshotKeys :
    /\ \E c \in okCalls : c.eventId[1] > 0 /\ c.version = parseVersion(k)
    /\ Cardinality(eventKeys) > parseVersion(k)

\* ------------------------------------------------------------------------
\* Version conflicts and retries
\* ------------------------------------------------------------------------
callsOf(req) == {c \in appendCalls : c.eventId[1] = req}

\* the slots running applyResourceCommand's attempts (not the telemetry append)
attempting(p) ==
  /\ procs[p].pc \in {"loadSnapshot", "loadTail", "append"}
  /\ ~procs[p].direct /\ ~procs[p].emitting

attemptsBounded ==
  /\ \A p \in Procs :
       /\ procs[p].remainingRetries \in 0 .. retriesOf(config)
       /\ attempting(p) =>
            \* every attempt but the running one ended in a conflict of its append
            /\ callsOf(procs[p].req) \subseteq conflictCalls
            /\ Cardinality(callsOf(procs[p].req))
                 = retriesOf(config) - procs[p].remainingRetries
  /\ \A req \in 1 .. received :
       Cardinality(callsOf(req))
         <= retriesOf(config) + 1
            + (IF config.emitConcurrencyConflictUnresolvedEvent THEN 1 ELSE 0)

\* the attempt that is about to append decided on the stored events up to the
\* version it loaded, which is past every version it lost before
attemptsFresh ==
  LET all == loadStream(bucket, "resource", ResourceId).events
  IN \A p \in Procs :
       procs[p].pc = "append" /\ ~procs[p].direct =>
         /\ procs[p].lastEventVersion <= Len(all)
         /\ procs[p].state = buildResourceState(SubSeq(all, 1, procs[p].lastEventVersion))
         /\ procs[p].recordedEvent.version = procs[p].lastEventVersion + 1
         /\ \A c \in callsOf(procs[p].req) : c.version <= procs[p].lastEventVersion

\* an attempt is repeated only by the step in which the request's own append
\* ended in VERSION_CONFLICT, and the repetition starts at the rehydrate
retryOnlyOnConflict ==
  \A p \in Procs :
    procs[p].pc # "idle" /\ procs'[p].pc # "idle"
    /\ procs'[p].remainingRetries # procs[p].remainingRetries =>
      /\ procs[p].pc = "append" /\ procs'[p].pc = "loadSnapshot"
      /\ procs'[p].remainingRetries = procs[p].remainingRetries - 1
      /\ \E c \in appendCalls' \ appendCalls :
           /\ c.eventId = procs[p].recordedEvent.eventId
           /\ c.result = VERSION_CONFLICT

\* C16: a resource command makes at most versionConflictMaxRetries + 1
\* attempts; an attempt is repeated only after VERSION_CONFLICT from its own
\* append; each repeated attempt restarts at the rehydrate and appends on the
\* state and version it loaded afresh; and the command always ends with a
\* response.
C16_BoundedRetriesAndTermination ==
  /\ [](attemptsBounded /\ attemptsFresh)
  /\ [][retryOnlyOnConflict]_vars
  /\ \A p \in Procs : (procs[p].pc # "idle") ~> (procs[p].pc = "idle")

\* a request lost its first append and, in its second attempt, is about to
\* append at a later version
C16_Witness ==
  \E p \in Procs :
    /\ attempting(p) /\ procs[p].pc = "append"
    /\ procs[p].remainingRetries < retriesOf(config)
    /\ \E c \in callsOf(procs[p].req) : c.version < procs[p].recordedEvent.version

\* the appendEvent calls of the command's attempts (the telemetry append, if
\* any, is the call after them)
attemptCallsOf(req) ==
  {c \in callsOf(req) : c.eventId[2] <= retriesOf(config) + 1}

\* every attempt the command was allowed ended in VERSION_CONFLICT
retriesExhausted(req) ==
  /\ Cardinality(attemptCallsOf(req)) = retriesOf(config) + 1
  /\ attemptCallsOf(req) \subseteq conflictCalls

\* C17: a command all of whose attempts ended in VERSION_CONFLICT is answered
\* 409 with error code VERSION_CONFLICT, and no domain event of that command
\* is stored in the stream (at most its ConcurrencyConflictUnresolved event).
C17_ExhaustedRepliesConflict ==
  \A r \in responses :
    r.kind = "new" /\ retriesExhausted(r.req) =>
      /\ r.statusCode = 409
      /\ r.body.error.code = VERSION_CONFLICT
      /\ r.body.error.meta.attempts = retriesOf(config) + 1
      /\ \A k \in eventKeys :
           bucket[k].eventId[1] = r.req => bucket[k].type = "ConcurrencyConflictUnresolved"

\* a command lost every attempt and was answered, the stream holding the
\* event of the writer that won
C17_Witness ==
  \E r \in responses :
    /\ r.kind = "new" /\ retriesExhausted(r.req)
    /\ \E c \in okCalls : c.eventId[1] > 0 /\ c.eventId[1] # r.req

\* the command a response answers, read from the content that was hashed
commandTypeOf(r) == r.contentHash[2].body.command.type

\* all requests were received and answered, each ran an UpdateResourceMetadata
\* (a command the decider accepts on every state of an existing resource),
\* and the ConcurrencyConflictUnresolved event is disabled
writersDone ==
  /\ ~config.emitConcurrencyConflictUnresolvedEvent
  /\ received = MaxRequests
  /\ \A p \in Procs : procs[p].pc = "idle"
  /\ \A r \in responses : r.kind = "new" /\ commandTypeOf(r) = "UpdateResourceMetadata"

succeeded == {r \in responses : r.statusCode = 200}

minOf(a, b) == IF a <= b THEN a ELSE b

\* C18: with N writers issuing acceptable commands on one stream,
\* R = versionConflictMaxRetries and the telemetry event disabled, every
\* command ends in success or in VERSION_CONFLICT, at least min(N, R + 1)
\* succeed, and the final version of the stream is the number of events
\* appended, one per successful command.
C18_WritersSucceedOrConflict ==
  writersDone =>
    /\ \A r \in responses :
         \/ r.statusCode = 200
         \/ r.statusCode = 409 /\ r.body.error.code = VERSION_CONFLICT
    /\ Cardinality(succeeded)
         >= minOf(Cardinality(responses), config.versionConflictMaxRetries + 1)
    /\ Cardinality(eventKeys) = Cardinality(okCalls)
    /\ C1_VersionsContiguous
    /\ Cardinality({c \in okCalls : c.eventId[1] > 0}) = Cardinality(succeeded)
    /\ \A r \in succeeded : Cardinality(appendedBy(r.req, appendCalls)) = 1

\* two concurrent writers without retries: one succeeded, the other was
\* answered VERSION_CONFLICT
C18_Witness ==
  /\ writersDone
  /\ Cardinality(responses) = MaxRequests
  /\ \E r \in responses : r.statusCode = 409
  /\ succeeded # {}

\* ------------------------------------------------------------------------
\* Failures after the append
\* ------------------------------------------------------------------------
isSuccess(r) == r.statusCode \in {200, 201}

\* C19: where the publish to the queue can fail, a command whose event was
\* appended still replies success: the failure of the publish is swallowed.
C19_PublishFailureSwallowed ==
  "publish" \in faults =>
    \A r \in responses : r.kind = "new" /\ domainEventsOf(r.req) # {} => isSuccess(r)

\* C20: where the conditional snapshot write can fail (with an error other
\* than the precondition one), a command whose event was appended still
\* replies success: the failure of the snapshot write is swallowed.
C20_SnapshotFailureSwallowed ==
  "snapshot" \in faults =>
    \A r \in responses : r.kind = "new" /\ domainEventsOf(r.req) # {} => isSuccess(r)

\* ------------------------------------------------------------------------
\* Order of the steps of an attempt; publication
\* ------------------------------------------------------------------------
\* the successive positions of a request: the lookup of the handler, then
\* load-snapshot, load-tail (with the decision), append, publish, snapshot,
\* and the save of the response; an attempt that lost its append starts over
stepOrder ==
  {<<"action", "loadSnapshot">>, <<"action", "append">>, <<"action", "save">>,
   <<"loadSnapshot", "loadTail">>,
   <<"loadTail", "append">>, <<"loadTail", "save">>, <<"loadTail", "idle">>,
   <<"append", "publish">>, <<"append", "loadSnapshot">>, <<"append", "save">>,
   <<"append", "idle">>,
   <<"publish", "snapshot">>, <<"publish", "save">>, <<"publish", "idle">>,
   <<"snapshot", "save">>, <<"snapshot", "idle">>,
   <<"save", "idle">>}

isStored(recordedEvent) ==
  LET key == keyOf(recordedEvent.streamType, recordedEvent.streamId, recordedEvent.version)
  IN key \in DOMAIN bucket /\ bucket[key] = recordedEvent

publishedAfterAppend ==
  /\ \A message \in BagToSet(queue) : isStored(message) /\ CopiesIn(message, queue) = 1
  /\ \A p \in Procs :
       /\ procs[p].pc = "publish" =>
            isStored(procs[p].recordedEvent) /\ ~BagIn(procs[p].recordedEvent, queue)
       /\ procs[p].pc = "snapshot" =>
            isStored(procs[p].recordedEvent) /\ BagIn(procs[p].recordedEvent, queue)

\* C21: within an attempt the steps are taken in the order load-snapshot,
\* load-tail, decide, append, publish, snapshot; an event is published only
\* after its append succeeded, so every message on the queue is an event
\* stored in the event store, and each appended event is published at most
\* once.
C21_OrderedStepsPublishAfterAppend ==
  /\ []publishedAfterAppend
  /\ [][\A p \in Procs :
          procs[p].pc # "idle" /\ procs'[p] # procs[p] =>
            <<procs[p].pc, procs'[p].pc>> \in stepOrder]_vars
  /\ [][\A message \in BagToSet(queue') \ BagToSet(queue) :
          \E p \in Procs : procs[p].pc = "publish" /\ procs[p].recordedEvent = message]_vars

\* two events are on the queue and a request that published its event is
\* about to write the snapshot
C21_Witness ==
  /\ Cardinality(BagToSet(queue)) = 2
  /\ \E p \in Procs : procs[p].pc = "snapshot" /\ BagIn(procs[p].recordedEvent, queue)

\* ------------------------------------------------------------------------
\* The ConcurrencyConflictUnresolved event
\* ------------------------------------------------------------------------
\* the appendEvent calls a request made after its attempts
telemetryCallsOf(req) == callsOf(req) \ attemptCallsOf(req)

isUnresolvedEvent(recordedEvent, lastEventVersion) ==
  /\ recordedEvent.type = "ConcurrencyConflictUnresolved"
  /\ recordedEvent.version = lastEventVersion + 1
  /\ recordedEvent.payload.attempts = retriesOf(config) + 1
  /\ recordedEvent.payload.lastKnownVersion = lastEventVersion

unresolvedEventRecorded ==
  /\ \A req \in 1 .. received :
       /\ Cardinality(telemetryCallsOf(req)) <= 1
       /\ telemetryCallsOf(req) # {} =>
            retriesExhausted(req) /\ config.emitConcurrencyConflictUnresolvedEvent
  /\ \A r \in responses :
       r.kind = "new" /\ retriesExhausted(r.req) =>
         /\ r.statusCode = 409 /\ r.body.error.code = VERSION_CONFLICT
         /\ Cardinality(telemetryCallsOf(r.req))
              = IF config.emitConcurrencyConflictUnresolvedEvent THEN 1 ELSE 0
  /\ \A k \in eventKeys :
       bucket[k].type = "ConcurrencyConflictUnresolved" =>
         /\ config.emitConcurrencyConflictUnresolvedEvent
         /\ isUnresolvedEvent(bucket[k], bucket[k].version - 1)
         /\ telemetryCallsOf(bucket[k].eventId[1])
              = {[eventId |-> bucket[k].eventId, version |-> bucket[k].version, result |-> ok]}
  /\ \A p \in Procs :
       procs[p].emitting /\ procs[p].pc = "append" =>
         isUnresolvedEvent(procs[p].recordedEvent, procs[p].lastEventVersion)

\* C22: with emitConcurrencyConflictUnresolvedEvent on, a resource command
\* that exhausted its retries reloads the stream and makes exactly one append,
\* of a ConcurrencyConflictUnresolved event at version lastEventVersion + 1
\* with payload attempts = retries + 1 and lastKnownVersion = the version the
\* reload saw; the reply is 409 VERSION_CONFLICT whether that append is stored
\* or lost; with the switch off no such event is ever appended.
C22_UnresolvedEventOnceThen409 ==
  /\ []unresolvedEventRecorded
  /\ [][\A p \in Procs :
          procs[p].emitting /\ procs[p].pc = "loadTail" /\ procs'[p].pc = "append" =>
            isUnresolvedEvent(procs'[p].recordedEvent, Cardinality(eventKeys))]_vars

\* a command lost its only attempt to one writer, reloaded, lost the append of
\* its telemetry event to another writer, and was answered 409
C22_Witness ==
  \E r \in responses :
    /\ r.kind = "new" /\ retriesExhausted(r.req)
    /\ r.statusCode = 409 /\ r.body.error.code = VERSION_CONFLICT
    /\ telemetryCallsOf(r.req) # {}
    /\ telemetryCallsOf(r.req) \subseteq conflictCalls

\* the same, the telemetry event having been stored
unresolvedEventStored ==
  \E r \in responses :
    /\ r.kind = "new" /\ retriesExhausted(r.req) /\ r.statusCode = 409
    /\ telemetryCallsOf(r.req) # {}
    /\ telemetryCallsOf(r.req) \subseteq okCalls

\* ------------------------------------------------------------------------
\* Projection worker: acknowledgement
\* ------------------------------------------------------------------------
\* the messages the queue holds, visible or not
onQueue == BagToSet(queue) \cup inflight

\* the chain of the message did everything that precedes the acknowledgement
projectedAndTracked(message) ==
  /\ message \in DOMAIN tasks
  /\ tasks[message].recordedEvent = message
  /\ tasks[message].pc = "delete"
  /\ tasks[message].opsApplied = Len(project(message))
  /\ tasks[message].lagUpserted

\* the message was received, is not deleted, and no chain is working on it:
\* the guard of VisibilityTimeout
redeliverable(message) == message \in inflight /\ message \notin DOMAIN tasks

\* C23: the worker deletes a message only after all projection ops of its
\* event were applied and the projection lag was upserted; when the decoding,
\* a projection op or the lag upsert fails, the message is not deleted and
\* stays on the queue, where its visibility timeout makes it deliverable again.
C23_DeleteOnlyAfterProjection ==
  /\ [][\A message \in onQueue \ onQueue' : projectedAndTracked(message)]_vars
  /\ [][\A message \in DOMAIN tasks \ DOMAIN tasks' :
          tasks[message].pc \in {"apply", "lag"} =>
            redeliverable(message)']_vars
  /\ [][\A message \in inflight' \ inflight :
          parseRecordedEvent(message).kind # "resolved" =>
            redeliverable(message)']_vars
  /\ [](\A message \in onQueue :
          /\ message \in DOMAIN tasks \/ BagIn(message, queue) \/ redeliverable(message)
          /\ redeliverable(message) => ENABLED VisibilityTimeout(message))

\* the first event was projected and its message deleted, while a message
\* whose body is empty was received, not deleted, and waits for its timeout
C23_Witness ==
  /\ SeedResourceCreated \notin onQueue
  /\ ResourceId \in DOMAIN tables.resources
  /\ projectionLag # null
  /\ EmptyBody \in inflight
  /\ failuresLeft < MaxFailures

\* ------------------------------------------------------------------------
\* Projection: re-delivery
\* ------------------------------------------------------------------------
RECURSIVE projectAll(_, _)
\* the projection store after every event was delivered once, in stream order
projectAll(store, events) ==
  IF events = <<>> THEN store
  ELSE projectAll(applyProjectionOps(store, project(Head(events))), Tail(events))

RECURSIVE firstDeliveries(_, _)
\* the events in the order of their first projection
firstDeliveries(events, seen) ==
  IF events = <<>> THEN <<>>
  ELSE IF Head(events) \in seen THEN firstDeliveries(Tail(events), seen)
  ELSE <<Head(events)>> \o firstDeliveries(Tail(events), seen \cup {Head(events)})

storedStream == loadStream(bucket, "resource", ResourceId).events

\* every event of the stream was projected and its message deleted
drained ==
  /\ DOMAIN tasks = {}
  /\ \A i \in 1 .. Len(storedStream) : storedStream[i] \notin onQueue

\* every event delivered exactly once and in stream order gives the fold of the stream
exactlyOnceInOrder ==
  drained /\ projectedEvents = storedStream => tables = projectAll(EmptyTables, storedStream)

\* C24: when the events of a stream were first delivered in stream order and
\* some of them were delivered again later, the projection store ends in the
\* state that delivering every event exactly once in stream order gives.
C24_RedeliverySameEndState ==
  drained /\ firstDeliveries(projectedEvents, {}) = storedStream =>
    tables = projectAll(EmptyTables, storedStream)

\* ------------------------------------------------------------------------
\* Projection worker: progress
\* ------------------------------------------------------------------------
isProjected(message) == \E i \in 1 .. Len(projectedEvents) : projectedEvents[i] = message

decidedOn(aggregate, type) ==
  decided # null /\ decided.aggregate = aggregate /\ decided.command.type = type

rejectedWith(decision, code) == decision.kind = "rejected" /\ decision.error.error.code = code

\* an active reservation of the state intersects the interval of the command
intersectsActive(state, command) ==
  \E i \in 1 .. Len(state.reservations) :
    /\ state.reservations[i].status = "active"
    /\ command.fromUtc < state.reservations[i].toUtc
    /\ state.reservations[i].fromUtc < command.toUtc

\* C26: on an existing resource, CreateReservationInResource is rejected with
\* INVALID_INTERVAL when fromUtc >= toUtc, else with RESERVATION_IN_PAST when
\* fromUtc < nowUtc (fromUtc = nowUtc passes), else with RESERVATION_OVERLAP
\* when the interval overlaps an active reservation; otherwise it is accepted
\* with ReservationAddedToResource carrying the command's interval and
\* reservationUserId.
C26_CreateReservationChecksInOrder ==
  decidedOn("resource", "CreateReservationInResource") /\ decided.state # null =>
    LET command == decided.command
        decision == decided.decision
    IN IF command.fromUtc >= command.toUtc THEN rejectedWith(decision, "INVALID_INTERVAL")
       ELSE IF command.fromUtc < command.nowUtc THEN rejectedWith(decision, "RESERVATION_IN_PAST")
       ELSE IF intersectsActive(decided.state, command)
         THEN rejectedWith(decision, "RESERVATION_OVERLAP")
       ELSE /\ decision.kind = "accepted"
            /\ decision.event.type = "ReservationAddedToResource"
            /\ decision.event.payload.fromUtc = command.fromUtc
            /\ decision.event.payload.toUtc = command.toUtc
            /\ decision.event.payload.userId = command.reservationUserId

\* an interval that is both empty and in the past is answered INVALID_INTERVAL
C26_Witness ==
  /\ decidedOn("resource", "CreateReservationInResource") /\ decided.state # null
  /\ decided.command.fromUtc >= decided.command.toUtc
  /\ decided.command.fromUtc < decided.command.nowUtc
  /\ rejectedWith(decided.decision, "INVALID_INTERVAL")

\* C27: a valid interval that does not start in the past is rejected with
\* RESERVATION_OVERLAP iff some active reservation r has cmd.from < r.to and
\* r.from < cmd.to; an interval that starts when an active reservation ends,
\* or ends when one starts, is accepted, and a cancelled reservation never
\* causes the rejection.
C27_OverlapIffActiveIntersects ==
  /\ decidedOn("resource", "CreateReservationInResource") /\ decided.state # null
  /\ decided.command.fromUtc < decided.command.toUtc
  /\ decided.command.fromUtc >= decided.command.nowUtc
  => /\ rejectedWith(decided.decision, "RESERVATION_OVERLAP")
          <=> intersectsActive(decided.state, decided.command)
     /\ (\A i \in 1 .. Len(decided.state.reservations) :
           LET r == decided.state.reservations[i] IN
             \/ r.status = "cancelled"
             \/ r.toUtc <= decided.command.fromUtc
             \/ decided.command.toUtc <= r.fromUtc)
          => decided.decision.kind = "accepted"

\* the interval starts exactly where an active reservation ends and lies on a
\* cancelled reservation: the command is accepted
C27_Witness ==
  /\ decidedOn("resource", "CreateReservationInResource") /\ decided.state # null
  /\ decided.decision.kind = "accepted"
  /\ \E i, j \in 1 .. Len(decided.state.reservations) :
       /\ decided.state.reservations[i].status = "active"
       /\ decided.state.reservations[i].toUtc = decided.command.fromUtc
       /\ decided.state.reservations[j].status = "cancelled"
       /\ decided.command.fromUtc < decided.state.reservations[j].toUtc
       /\ decided.state.reservations[j].fromUtc < decided.command.toUtc

\* the reservations of the state that carry the id of the command
named(state, command) ==
  {i \in 1 .. Len(state.reservations) :
     state.reservations[i].reservationId = command.reservationId}

\* C28: on an existing resource, CancelReservationInResource is rejected with
\* RESERVATION_NOT_FOUND when no reservation has the id, else with
\* RESERVATION_ALREADY_CANCELLED when that reservation is cancelled, else with
\* UNAUTHORIZED_CANCEL unless the actor is an admin or the owner; otherwise it
\* is accepted with ResourceReservationCancelled whose cancelledAtUtc is the
\* command's nowUtc.
C28_CancelChecksInOrder ==
  decidedOn("resource", "CancelReservationInResource") /\ decided.state # null =>
    LET command == decided.command
        decision == decided.decision
        ids == named(decided.state, command)
    IN IF ids = {} THEN rejectedWith(decision, "RESERVATION_NOT_FOUND")
       ELSE LET reservation == decided.state.reservations[CHOOSE i \in ids : TRUE] IN
            /\ Cardinality(ids) = 1
            /\ IF reservation.status = "cancelled"
                 THEN rejectedWith(decision, "RESERVATION_ALREADY_CANCELLED")
               ELSE IF command.actorRole # "admin" /\ reservation.userId # command.actorUserId
                 THEN rejectedWith(decision, "UNAUTHORIZED_CANCEL")
               ELSE /\ decision.kind = "accepted"
                    /\ decision.event.type = "ResourceReservationCancelled"
                    /\ decision.event.payload.reservationId = command.reservationId
                    /\ decision.event.payload.cancelledAtUtc = command.nowUtc

\* an admin who does not own the reservation cancels it, later than it was made
C28_Witness ==
  /\ decidedOn("resource", "CancelReservationInResource") /\ decided.state # null
  /\ decided.command.actorRole = "admin"
  /\ decided.command.nowUtc > NowUtc
  /\ \E i \in named(decided.state, decided.command) :
       decided.state.reservations[i].userId # decided.command.actorUserId
  /\ decided.decision.kind = "accepted"
  /\ decided.decision.event.payload.cancelledAtUtc = decided.command.nowUtc

\* C29: CreateResource and UpdateResourceMetadata of a non-admin actor are
\* rejected with FORBIDDEN; CreateResource of an admin on an existing resource
\* with RESOURCE_ALREADY_EXISTS; UpdateResourceMetadata of an admin,
\* CreateReservationInResource and CancelReservationInResource on a resource
\* whose state is null with RESOURCE_NOT_FOUND.
C29_RoleAndExistenceChecks ==
  decided # null /\ decided.aggregate = "resource" =>
    LET command == decided.command
        decision == decided.decision
        adminOnly == command.type \in {"CreateResource", "UpdateResourceMetadata"}
    IN /\ adminOnly /\ command.actorRole # "admin" => rejectedWith(decision, "FORBIDDEN")
       /\ command.type = "CreateResource" /\ command.actorRole = "admin" /\ decided.state # null
            => rejectedWith(decision, "RESOURCE_ALREADY_EXISTS")
       /\ command.type = "CreateResource" /\ command.actorRole = "admin" /\ decided.state = null
            => decision.kind = "accepted"
       /\ /\ decided.state = null
          /\ \/ command.type = "UpdateResourceMetadata" /\ command.actorRole = "admin"
             \/ command.type \in {"CreateReservationInResource", "CancelReservationInResource"}
          => rejectedWith(decision, "RESOURCE_NOT_FOUND")

\* a non-admin updates the metadata of a resource that does not exist: FORBIDDEN
C29_Witness ==
  /\ decidedOn("resource", "UpdateResourceMetadata")
  /\ decided.state = null
  /\ decided.command.actorRole # "admin"
  /\ rejectedWith(decided.decision, "FORBIDDEN")

\* C30: decideUser accepts BootstrapAdmin and RegisterUser iff the user state
\* is null, emitting AdminBootstrapped / UserRegistered, and else rejects with
\* USER_ALREADY_EXISTS; it accepts LoginUser iff the state is non-null and its
\* email equals the command's, and else rejects with INVALID_CREDENTIALS;
\* folding the emitted UserLoggedIn leaves the user state unchanged.
C30_UserDecisions ==
  decided # null /\ decided.aggregate = "user" =>
    LET command == decided.command
        decision == decided.decision
    IN IF command.type \in {"BootstrapAdmin", "RegisterUser"} THEN
         IF decided.state = null
         THEN /\ decision.kind = "accepted"
              /\ decision.event.type = IF command.type = "BootstrapAdmin"
                                       THEN "AdminBootstrapped" ELSE "UserRegistered"
              /\ aggregates.user.state # null
              /\ aggregates.user.state.email = command.email
         ELSE rejectedWith(decision, "USER_ALREADY_EXISTS")
       ELSE
         IF decided.state # null /\ decided.state.email = command.email
         THEN /\ decision.kind = "accepted"
              /\ decision.event.type = "UserLoggedIn"
              /\ foldUser(decided.state, decision.event) = decided.state
              /\ aggregates.user.state = decided.state
         ELSE rejectedWith(decision, "INVALID_CREDENTIALS")

\* a registered user logged in with the email of the registration
C30_Witness ==
  /\ decidedOn("user", "LoginUser")
  /\ decided.state # null /\ decided.state.role = "user"
  /\ decided.decision.kind = "accepted"
  /\ aggregates.user = [state |-> decided.state, version |-> 2]

\* ------------------------------------------------------------------------
\* C31: a rejected command changes nothing and replies with the mapped error
\* ------------------------------------------------------------------------
isRejection(result) ==
  /\ result.statusCode >= 400
  /\ result.body.error.code \notin {"VERSION_CONFLICT", "INTERNAL_ERROR"}

\* nothing the request made is stored or queued
leftNoTrace(req) ==
  /\ \A call \in appendCalls : call.eventId[1] = req => call.result # ok
  /\ \A k \in DOMAIN bucket : Len(k) = 3 => bucket[k].eventId[1] # req
  /\ \A message \in BagToSet(queue) : message.eventId[1] # req

rejectionsLeaveNoTrace ==
  /\ \A p \in Procs :
       procs[p].pc = "save" /\ isRejection(procs[p].result) => leftNoTrace(procs[p].req)
  /\ \A r \in responses :
       r.kind = "new" /\ isRejection(r) =>
         /\ leftNoTrace(r.req)
         /\ r.statusCode = statusOf(r.body)

\* the step in which the decider rejects, and the reply that follows it
rejectedStepsShortCircuit ==
  \A p \in Procs :
    /\ procs[p].pc = "loadTail" /\ ~procs[p].emitting /\ procs'[p].pc = "save" =>
         LET decision == decideResource(procs'[p].state, commandOf(procs[p]))
         IN /\ decision.kind = "rejected"
            /\ procs'[p].result = response(statusOf(decision.error), decision.error)
            /\ bucket' = bucket /\ queue' = queue /\ appendCalls' = appendCalls
    /\ procs[p].pc = "save" /\ isRejection(procs[p].result) /\ procs'[p] # procs[p] =>
         /\ bucket' = bucket /\ queue' = queue /\ appendCalls' = appendCalls
         /\ procs'[p].pc = "idle"
         /\ \E r \in responses' \ responses :
              /\ r.req = procs[p].req
              /\ r.statusCode = procs[p].result.statusCode
              /\ r.body = procs[p].result.body

\* C31: a command whose decision is Rejected appends no event, publishes no
\* message and writes no snapshot: from the decision to the reply the bucket
\* and the queue are not written by it, no append of the request ever stored
\* an event, and the reply is the response mapped from the domain error
C31_RejectedShortCircuits ==
  /\ []rejectionsLeaveNoTrace
  /\ [][rejectedStepsShortCircuit]_vars

\* a reservation request was answered 409 RESERVATION_OVERLAP on a stream that
\* holds the reservation it collides with, and its record was saved
C31_Witness ==
  \E r \in responses :
    /\ r.kind = "new" /\ r.statusCode = 409 /\ r.saved = ok
    /\ r.body.error.code = "RESERVATION_OVERLAP"
    /\ keyOf("resource", ResourceId, 2) \in DOMAIN bucket

\* ------------------------------------------------------------------------
\* C32: a user command that loses its append
\* ------------------------------------------------------------------------
lostUserAppend(req) ==
  \E call \in appendCalls : call.eventId[1] = req /\ call.result = VERSION_CONFLICT

\* C32: a user-stream command whose append got VERSION_CONFLICT is started
\* again from the load and, when no retry is left, is answered 409
\* VERSION_CONFLICT: it is never answered 500
C32_UserConflictRetriedThen409 ==
  \A r \in responses :
    r.kind = "new" /\ lostUserAppend(r.req) =>
      \/ r.statusCode = 409 /\ r.body.error.code = "VERSION_CONFLICT"
      \/ /\ r.statusCode \in {200, 201}
         /\ \E call \in appendCalls : call.eventId[1] = r.req /\ call.result = ok

\* ------------------------------------------------------------------------
\* C38: one user stream per email
\* ------------------------------------------------------------------------
createdUsers ==
  {bucket[k] : k \in {j \in DOMAIN bucket :
                        Len(j) = 3 /\ bucket[j].streamType = "user" /\ bucket[j].version = 1}}

\* C38: no two user streams are created with the same email
C38_OneStreamPerEmail ==
  \A a, b \in createdUsers : a.payload.email = b.payload.email => a.streamId = b.streamId

\* ------------------------------------------------------------------------
\* C33: which store errors are retried
\* ------------------------------------------------------------------------
S3Errors == {"none", "PreconditionFailed", "ConditionalRequestConflict", "ServiceUnavailable"}

\* appendEvent on the event a request is about to append, for every answer of
\* S3 and every expected version: VERSION_CONFLICT exactly for a version
\* mismatch, an occupied key and the two precondition errors, any other error
\* as it is, and a bucket that changes only with the result ok
conflictFamilyOnly ==
  \A p \in Procs :
    procs[p].pc = "append" =>
      \A s3error \in S3Errors, expectedVersion \in 0 .. (procs[p].lastEventVersion + 1) :
        LET recordedEvent == procs[p].recordedEvent
            key == keyOf(recordedEvent.streamType, recordedEvent.streamId,
                         recordedEvent.version)
            put == appendEventOutcome(bucket, recordedEvent, expectedVersion, s3error)
            mismatch == expectedVersion + 1 # recordedEvent.version
        IN /\ put.result = VERSION_CONFLICT <=>
                \/ mismatch
                \/ s3error \in {"PreconditionFailed", "ConditionalRequestConflict"}
                \/ s3error = "none" /\ key \in DOMAIN bucket
           /\ put.result \notin {ok, VERSION_CONFLICT} => put.result = s3error
           /\ put.result # ok => put.bucket = bucket
           /\ put.result = ok => put.bucket = bucket @@ (key :> recordedEvent)

isStoreError(r) ==
  /\ r.statusCode = 500
  /\ r.body.error.code = "INTERNAL_ERROR"
  /\ r.body.error.meta.message = "ServiceUnavailable"

\* an error that is no version conflict is sent as it is, and nothing of the
\* request is stored or queued; a failed append stored nothing
storeErrorsSurface ==
  /\ \A r \in responses : r.kind = "new" /\ isStoreError(r) =>
       /\ leftNoTrace(r.req)
       /\ r.saved = "none"
  /\ \A call \in appendCalls :
       call.result # ok =>
         \A k \in DOMAIN bucket : Len(k) = 3 => bucket[k].eventId # call.eventId

\* the runner starts an attempt again only after a VERSION_CONFLICT, and a
\* request that meets another store error ends in that step
retriedOnlyOnConflict ==
  \A p \in Procs :
    LET proc == procs[p]
        newCalls == {call \in appendCalls' \ appendCalls :
                       call.eventId = proc.recordedEvent.eventId}
    IN
    /\ proc.pc = "append" /\ procs'[p].pc = "loadSnapshot" /\ ~procs'[p].emitting =>
         /\ \E call \in newCalls : call.result = VERSION_CONFLICT
         /\ procs'[p].remainingRetries = proc.remainingRetries - 1
    /\ proc.pc = "append" /\ ~proc.emitting /\ ~proc.direct
       /\ (\E call \in newCalls : call.result = VERSION_CONFLICT) =>
         IF proc.remainingRetries > 0
         THEN procs'[p].pc = "loadSnapshot"
         ELSE procs'[p].result.statusCode = 409
    /\ proc.pc \in {"loadSnapshot", "loadTail", "append"} /\ ~proc.emitting
       /\ (\E r \in responses' \ responses : r.req = proc.req /\ isStoreError(r)) =>
         /\ procs'[p].pc = "idle"
         /\ bucket' = bucket /\ queue' = queue
    /\ proc.pc = "append" /\ ~proc.emitting
       /\ (\E call \in newCalls : call.result \notin {ok, VERSION_CONFLICT}) =>
         \E r \in responses' \ responses : r.req = proc.req /\ isStoreError(r)

\* C33: only a lost precondition (or a version mismatch, which writes nothing)
\* becomes VERSION_CONFLICT and is retried; any other store error during load
\* or append is surfaced as it is after that one attempt, and no event of the
\* request is visible
C33_OnlyConflictsRetried ==
  /\ [](conflictFamilyOnly /\ storeErrorsSurface)
  /\ [][retriedOnlyOnConflict]_vars

\* a request lost an append, started again, and met a store error in the
\* second attempt: it was answered with that error and stored nothing
C33_Witness ==
  \E r \in responses :
    /\ r.kind = "new" /\ isStoreError(r)
    /\ \E call \in appendCalls : call.eventId[1] = r.req /\ call.result = VERSION_CONFLICT
    /\ \E call \in appendCalls : call.eventId[1] = r.req /\ call.result = "ServiceUnavailable"

\* ------------------------------------------------------------------------
\* C34: one message's failure and the rest of its batch
\* ------------------------------------------------------------------------
decodes(message) == parseRecordedEvent(message).kind = "resolved"

\* C34: whatever happens to one message of a received batch, also one whose
\* body is empty or is not JSON, every other message of the batch that
\* decodes is processed in that batch: its chain is started with the batch
C34_FailureIsolatedPerMessage ==
  [][\A message \in inflight' \ inflight : decodes(message) => message \in DOMAIN tasks']_vars

\* the part that holds: a call that fails in the chain of one message, or an
\* empty body, ends that chain only; the chains of the other messages go on
failedCallEndsOwnChainOnly ==
  [][\A message \in DOMAIN tasks :
       (message \notin DOMAIN tasks' \/ tasks'[message] # tasks[message]) =>
         \A other \in DOMAIN tasks \ {message} :
           other \in DOMAIN tasks' /\ tasks'[other] = tasks[other]]_vars

\* ------------------------------------------------------------------------
\* C35: what STREAM_GAP_DETECTED reports
\* ------------------------------------------------------------------------
RECURSIVE firstBreak(_, _, _)
\* the first position of the loaded versions that does not continue from
\* fromVersion, or 0 when they are contiguous
firstBreak(versions, fromVersion, i) ==
  IF i > Len(versions) THEN 0
  ELSE IF versions[i] # fromVersion + i - 1 THEN i
  ELSE firstBreak(versions, fromVersion, i + 1)

gapLoaded == decided # null /\ decided.load.result = STREAM_GAP_DETECTED

\* the expected version is the first missing one, and a load is rejected
\* exactly when the loaded versions are not contiguous
gapExpectedIsFirstMissing ==
  decided # null =>
    LET break == firstBreak(decided.load.versions, decided.fromVersionInclusive, 1)
    IN /\ decided.load.result = STREAM_GAP_DETECTED <=> break # 0
       /\ break # 0 => decided.load.expectedVersion = decided.fromVersionInclusive + break - 1

\* C35: a load that fails with STREAM_GAP_DETECTED reports as expected the
\* first version at which continuity breaks and as actual the version found
\* at that position, whatever follows the gap
C35_GapReportsFirstBreak ==
  gapLoaded =>
    LET break == firstBreak(decided.load.versions, decided.fromVersionInclusive, 1)
    IN /\ decided.load.expectedVersion = decided.fromVersionInclusive + break - 1
       /\ decided.load.actualVersion = <<decided.load.versions[break]>>

\* ------------------------------------------------------------------------
\* C36: one invocation, at most one event
\* ------------------------------------------------------------------------
storedBy(req) ==
  {call \in appendCalls : call.eventId[1] = req /\ call.result = ok}

isSuccessStatus(result) == result.statusCode \in {200, 201}

\* the event a request holds is the one decideResource gives for its command
\* on the state it rehydrated, recorded at the next version of that state
producedFromDecidedState(proc) ==
  LET decision == decideResource(proc.state, commandOf(proc))
  IN /\ decision.kind = "accepted"
     /\ proc.recordedEvent.type = decision.event.type
     /\ proc.recordedEvent.payload = decision.event.payload
     /\ proc.recordedEvent.version = proc.lastEventVersion + 1

atMostOneEventPerInvocation ==
  /\ \A req \in 1 .. received : Cardinality(storedBy(req)) <= 1
  /\ \A p \in Procs :
       procs[p].pc = "save" /\ isSuccessStatus(procs[p].result) =>
         /\ isStored(procs[p].recordedEvent)
         /\ producedFromDecidedState(procs[p])
         /\ storedBy(procs[p].req) =
              {[eventId |-> procs[p].recordedEvent.eventId,
                version |-> procs[p].recordedEvent.version, result |-> ok]}
  /\ \A r \in responses :
       r.kind = "new" /\ isSuccessStatus(r) =>
         \E k \in DOMAIN bucket :
           /\ Len(k) = 3 /\ bucket[k].eventId[1] = r.req
           /\ storedBy(r.req) = {[eventId |-> bucket[k].eventId,
                                  version |-> bucket[k].version, result |-> ok]}

\* an attempt is started again only by a request none of whose appends stored
\* an event, in a step that stores nothing
retryStoredNothing ==
  \A p \in Procs :
    procs[p].pc = "append" /\ procs'[p].pc = "loadSnapshot" =>
      /\ bucket' = bucket
      /\ storedBy(procs[p].req)' = {}

\* C36: one command invocation appends at most one event whatever the number
\* of retries, a retry follows only an append that stored nothing, and a
\* success status is sent only when the event produced from the decided state
\* is stored at the version after that state's last event
C36_AtMostOneEventPerInvocation ==
  /\ []atMostOneEventPerInvocation
  /\ [][retryStoredNothing]_vars

\* a request lost its first append, loaded the stream again, and was answered
\* with success: of its two append calls one stored an event
C36_Witness ==
  \E r \in responses :
    /\ r.kind = "new" /\ isSuccessStatus(r)
    /\ \E call \in appendCalls : call.eventId[1] = r.req /\ call.result = VERSION_CONFLICT
    /\ Cardinality(storedBy(r.req)) = 1

\* a response the command resolved with an error status: a domain rejection
\* or the 409 of applyResourceCommand's catch
isCommandError(r) ==
  /\ r.kind = "new"
  /\ r.statusCode >= 400
  /\ r.body.error.code # "INTERNAL_ERROR"

\* the response of safe's catch: action() rejected
isUnhandledError(r) ==
  /\ r.kind = "new"
  /\ r.statusCode = 500
  /\ r.body.error.code = "INTERNAL_ERROR"

\* the record runIdempotent hands to saveIdempotency for a response
recordOf(r) ==
  [idempotencyKey |-> r.idempotencyKey, contentHash |-> r.contentHash,
   statusCode |-> r.statusCode, responseBody |-> r.body, createdAtUtc |-> NowUtc]

\* the step that answers with a command error made the save a success makes:
\* it stores the record when the key is free and the table call goes through
commandErrorsAreSaved ==
  \A r \in responses' \ responses :
    isCommandError(r) =>
      /\ r.saved # "none"
      /\ r.saved = ok => /\ idempotencyTable[r.idempotencyKey] = null
                         /\ idempotencyTable'[r.idempotencyKey] = recordOf(r)
      /\ (idempotencyTable[r.idempotencyKey] = null /\ r.saved # "error") => r.saved = ok

\* the step that answers 500 INTERNAL_ERROR made no save
unhandledErrorsAreNotSaved ==
  \A r \in responses' \ responses :
    isUnhandledError(r) => r.saved = "none" /\ idempotencyTable' = idempotencyTable

\* a request that arrives with the key and content of a stored error record
\* is answered with that record and starts no command
storedErrorsAreReplayed ==
  received' # received =>
    \A r \in responses' \ responses :
      LET existing == idempotencyTable[r.idempotencyKey] IN
      (r.req = received' /\ existing # null /\ existing.statusCode >= 400
         /\ existing.contentHash = r.contentHash) =>
        /\ r.kind = "replay"
        /\ r.statusCode = existing.statusCode /\ r.body = existing.responseBody
        /\ procs' = procs /\ bucket' = bucket /\ appendCalls' = appendCalls

\* no stored record holds the response of an unhandled error
noUnhandledErrorStored ==
  \A k \in DOMAIN idempotencyTable :
    idempotencyTable[k] # null =>
      ~(idempotencyTable[k].statusCode = 500
        /\ idempotencyTable[k].responseBody.error.code = "INTERNAL_ERROR")

\* C37: an error response the command produced (a domain rejection, or 409
\* VERSION_CONFLICT after the retries) goes through saveIdempotency like a
\* success and is stored under the key; a later request with that key and
\* content is answered with the stored error and the command is not run; a
\* request answered 500 INTERNAL_ERROR stores no record
C37_CommandErrorsStoredAndReplayed ==
  /\ []noUnhandledErrorStored
  /\ [][commandErrorsAreSaved /\ unhandledErrorsAreNotSaved /\ storedErrorsAreReplayed]_vars

\* a 409 VERSION_CONFLICT was stored and replayed to a second request with the
\* same key and content, and another request was answered 500 and left no record
C37_Witness ==
  /\ \E r \in responses, s \in responses :
       /\ isCommandError(r) /\ r.saved = ok /\ r.body.error.code = VERSION_CONFLICT
       /\ s.kind = "replay" /\ s.req > r.req
       /\ s.idempotencyKey = r.idempotencyKey
       /\ s.statusCode = r.statusCode /\ s.body = r.body
  /\ \E r \in responses :
       /\ isUnhandledError(r)
       /\ idempotencyTable[r.idempotencyKey] = null

\* ------------------------------------------------------------------------
\* Projection worker: the events of one batch
\* ------------------------------------------------------------------------
\* the chain of the message has applied every op of its event
opsTookEffect(message) == tasks[message].opsApplied = Len(project(message))

\* the chains of the batch the loop awaits that are of events of the reservation
batchOfReservation(reservationId) ==
  {message \in awaited :
     /\ message \in DOMAIN tasks
     /\ message.type \in {"ReservationAddedToResource", "ResourceReservationCancelled"}
     /\ message.payload.reservationId = reservationId}

\* the state the stored stream folds to
foldedResource == foldTail(null, storedStream, 1)

\* C39: while no call fails, among the events of one reservation received in
\* one batch, the projection ops of an event take effect only after those of
\* every event of a lower version of that batch (the ops of
\* ReservationAddedToResource before those of ResourceReservationCancelled)
C39_BatchTakesEffectInVersionOrder ==
  failuresLeft = MaxFailures =>
    \A later \in batchOfReservation(0), earlier \in batchOfReservation(0) :
      earlier.version < later.version /\ tasks[later].opsApplied > 0 =>
        opsTookEffect(earlier)

\* the table after the cancellation of a batch was applied before the
\* addition of the same batch, the queue drained and no call having failed
cancelOvertookAddition ==
  /\ drained /\ failuresLeft = MaxFailures /\ onQueue = {}
  /\ projectedEvents = <<SeedResourceCreated, SeedReservationCancelled, SeedReservationAdded>>
  /\ tables.reservations[0].status = "active"
  /\ foldedResource.reservations[1].status = "cancelled"

\* ------------------------------------------------------------------------
\* Resource decider: cancelled reservations
\* ------------------------------------------------------------------------
\* the reservations of the state that are cancelled
cancelledIn(state) ==
  IF state = null THEN {}
  ELSE {i \in 1 .. Len(state.reservations) : state.reservations[i].status = "cancelled"}

\* a reservation that is cancelled is the same reservation, cancelled, in the next state
cancelledStaysCancelled ==
  \A i \in cancelledIn(aggregates.resource.state) :
    /\ aggregates'.resource.state # null
    /\ i \in cancelledIn(aggregates'.resource.state)
    /\ aggregates'.resource.state.reservations[i].reservationId =
         aggregates.resource.state.reservations[i].reservationId

\* a cancel that names a cancelled reservation is rejected
cancelOfCancelledRejected ==
  /\ decidedOn("resource", "CancelReservationInResource") /\ decided.state # null
  /\ \E i \in cancelledIn(decided.state) :
       decided.state.reservations[i].reservationId = decided.command.reservationId
  => rejectedWith(decided.decision, "RESERVATION_ALREADY_CANCELLED")

\* the command's interval intersects a cancelled reservation and no active one
overlapsOnlyCancelled(state, command) ==
  /\ \E i \in cancelledIn(state) :
       /\ command.fromUtc < state.reservations[i].toUtc
       /\ state.reservations[i].fromUtc < command.toUtc
  /\ \A i \in 1 .. Len(state.reservations) \ cancelledIn(state) :
       \/ state.reservations[i].toUtc <= command.fromUtc
       \/ command.toUtc <= state.reservations[i].fromUtc

\* a valid reservation on the interval of a cancelled one is accepted
createOverCancelledAccepted ==
  /\ decidedOn("resource", "CreateReservationInResource") /\ decided.state # null
  /\ decided.command.fromUtc < decided.command.toUtc
  /\ decided.command.fromUtc >= decided.command.nowUtc
  /\ overlapsOnlyCancelled(decided.state, decided.command)
  => /\ decided.decision.kind = "accepted"
     /\ decided.decision.event.type = "ReservationAddedToResource"

\* C40: in a resource stream a cancelled reservation is cancelled in every
\* later state, every later cancel of it is rejected with
\* RESERVATION_ALREADY_CANCELLED, and a CreateReservationInResource for a
\* valid interval that overlaps cancelled reservations only is accepted
C40_CancelledIsFinal ==
  /\ [](cancelOfCancelledRejected /\ createOverCancelledAccepted)
  /\ [][cancelledStaysCancelled]_vars

\* a reservation was accepted on the interval of a cancelled one: the stream
\* holds the cancelled reservation and the active one on intersecting intervals
C40_Witness ==
  /\ decidedOn("resource", "CreateReservationInResource") /\ decided.state # null
  /\ decided.decision.kind = "accepted"
  /\ overlapsOnlyCancelled(decided.state, decided.command)
  /\ \E i \in cancelledIn(aggregates.resource.state) :
       LET cancelled == aggregates.resource.state.reservations[i]
           added == aggregates.resource.state.reservations[Len(aggregates.resource.state.reservations)]
       IN /\ added.status = "active"
          /\ added.fromUtc < cancelled.toUtc /\ cancelled.fromUtc < added.toUtc

\* a second cancel of a reservation was rejected
cancelledTwice ==
  /\ decidedOn("resource", "CancelReservationInResource")
  /\ rejectedWith(decided.decision, "RESERVATION_ALREADY_CANCELLED")

====
